---------------------------- MODULE Spec2Model ----------------------------
(***************************************************************************)
(* Model of the preferences_pb codec of the Preferences DataStore Editor   *)
(* (editor.pyw): varints, the Value oneof, MapEntry and the top-level      *)
(* PreferenceMap.                                                          *)
(*                                                                         *)
(* Representation of Python values:                                        *)
(*   bytes   a sequence of numbers in 0..255 (index 0 of Python is index   *)
(*           1 here; offsets keep Python's 0-based values)                 *)
(*   int     [neg, mag]: sign and magnitude, the magnitude a little-endian *)
(*           sequence of base-128 digits without leading zero digit, so    *)
(*           that Python's unbounded integers (2^64, 2^77) are exact       *)
(*   bool    [bool |-> TRUE/FALSE]                                         *)
(*   str     [str |-> sequence of code points]                             *)
(*   list    [list |-> sequence of str]                                    *)
(*   float   [f32 |-> the four IEEE754 bytes] / [f64 |-> the eight bytes]  *)
(*   None    [none |-> TRUE]; the type name None is the name NoneName      *)
(* A raised ValueError is [ok |-> FALSE, err |-> its message].             *)
(***************************************************************************)
EXTENDS Integers, Sequences, FiniteSets, TLC

VARIABLES
    pc,      \* position of the call sequence: which call comes next
    origin,  \* where the bytes in `data` come from: the encoder or raw input
    arg,     \* the Python value handed to the encoder
    data,    \* the byte buffer handed to the decoder
    offset,  \* the offset handed to read_varint
    ret,     \* what the decoder returned or raised
    self_filename,   \* PrefEditorApp.filename: PyNone or [path |-> name]
    self_pref_dict,  \* PrefEditorApp.pref_dict
    disk,       \* the files: path |-> PyNone (no such file) or [bytes |-> content]
    loaded,     \* the editing widgets are enabled (update_widget_states(True))
    dialog,     \* the message boxes and status texts the last handler showed, in order
    preferences_file,  \* BackupCreator.preferences_file: PyNone or [path |-> name]
    additional_files,  \* BackupCreator.additional_files: the list of paths
    tree,              \* the row ids of the file list widget, in display order
    pb_mandatory,      \* the "Preferences PB mandatory" checkbox
    create_btn,        \* state of the Create Backup button: "normal" or "disabled"
    progress_q,        \* BackupCreator._progress_q: the messages not yet polled
    workers,           \* the zip worker threads: thread |-> what it has left to do
    handled            \* thread |-> its messages the poller has processed, in order

codec_vars == <<pc, origin, arg, data, offset, ret>>

editor_vars == <<self_filename, self_pref_dict, disk, loaded, dialog>>

backup_vars ==
    <<preferences_file, additional_files, tree, pb_mandatory, create_btn, progress_q,
      workers, handled>>

vars ==
    <<pc, origin, arg, data, offset, ret,
      self_filename, self_pref_dict, disk, loaded, dialog,
      preferences_file, additional_files, tree, pb_mandatory, create_btn, progress_q,
      workers, handled>>

\* ------------------------------------------------------------------------
\* Python integers of any size
\* ------------------------------------------------------------------------

RECURSIVE Norm(_)
\* drop the zero digits at the most significant end
Norm(d) ==
    IF d = <<>> THEN d
    ELSE IF d[Len(d)] = 0 THEN Norm(SubSeq(d, 1, Len(d) - 1))
    ELSE d

PyInt(neg, mag) ==
    LET m == Norm(mag) IN [neg |-> neg /\ m # <<>>, mag |-> m]

PyNat(mag) == PyInt(FALSE, mag)

RECURSIVE Pow2(_)
Pow2(n) == IF n = 0 THEN 1 ELSE 2 * Pow2(n - 1)

\* the magnitude of 2^n
MagPow2(n) == [i \in 1..(n \div 7) |-> 0] \o <<Pow2(n % 7)>>

\* the magnitude of the small number n >= 0
RECURSIVE NatMag(_)
NatMag(n) == IF n = 0 THEN <<>> ELSE <<n % 128>> \o NatMag(n \div 128)

RECURSIVE MagLTFrom(_, _, _)
MagLTFrom(a, b, i) ==
    IF i = 0 THEN FALSE
    ELSE IF a[i] # b[i] THEN a[i] < b[i]
    ELSE MagLTFrom(a, b, i - 1)

\* a < b for normalised magnitudes
MagLT(a, b) ==
    IF Len(a) # Len(b) THEN Len(a) < Len(b) ELSE MagLTFrom(a, b, Len(a))

MagLE(a, b) == ~MagLT(b, a)

RECURSIVE MagSubFrom(_, _, _, _)
MagSubFrom(a, b, i, borrow) ==
    IF i > Len(a) THEN <<>>
    ELSE LET bi == IF i <= Len(b) THEN b[i] ELSE 0
             d  == a[i] - bi - borrow
         IN  IF d < 0 THEN <<d + 128>> \o MagSubFrom(a, b, i + 1, 1)
             ELSE <<d>> \o MagSubFrom(a, b, i + 1, 0)

\* a - b for normalised magnitudes with a >= b
MagSub(a, b) == Norm(MagSubFrom(a, b, 1, 0))

\* x - y for x, y >= 0
IntSub(x, y) ==
    IF MagLE(y.mag, x.mag) THEN PyInt(FALSE, MagSub(x.mag, y.mag))
    ELSE PyInt(TRUE, MagSub(y.mag, x.mag))

\* x <= y for x, y >= 0
IntLE(x, y) == MagLE(x.mag, y.mag)

\* the low w bits of the magnitude m
MagLow(m, w) ==
    LET q == w \div 7
        r == w % 7
    IN  Norm([i \in 1..(IF Len(m) <= q THEN Len(m) ELSE q + 1) |->
                IF i <= q THEN m[i] ELSE m[i] % Pow2(r)])

\* value & ((1 << w) - 1), two's complement for a negative value
IntAndMask(value, w) ==
    LET low == MagLow(value.mag, w) IN
    IF ~value.neg \/ low = <<>> THEN PyNat(low)
    ELSE PyNat(MagSub(MagPow2(w), low))

\* value >> 3 for value >= 0
IntShr3(value) ==
    LET m == value.mag IN
    PyNat([i \in 1..Len(m) |->
             (m[i] \div 8) + (IF i < Len(m) THEN (m[i + 1] % 8) * 16 ELSE 0)])

\* value & 0x7 for value >= 0
IntAnd7(value) == IF value.mag = <<>> THEN 0 ELSE value.mag[1] % 8

\* A length or offset as a number. Buffers of the model are far shorter than
\* 2^28 bytes, and after adding a length to an offset the code only compares
\* the offset with a buffer length, so every length of 2^28 or more acts as 2^28.
IntToNat(value) ==
    LET m == value.mag IN
    IF Len(m) > 4 THEN 128 * 128 * 128 * 128
    ELSE (IF Len(m) >= 1 THEN m[1] ELSE 0)
       + (IF Len(m) >= 2 THEN m[2] * 128 ELSE 0)
       + (IF Len(m) >= 3 THEN m[3] * 128 * 128 ELSE 0)
       + (IF Len(m) >= 4 THEN m[4] * 128 * 128 * 128 ELSE 0)

\* ------------------------------------------------------------------------
\* Results
\* ------------------------------------------------------------------------

Raise(msg) == [ok |-> FALSE, err |-> msg]

NotCalled == [called |-> FALSE]

\* ------------------------------------------------------------------------
\* Varints
\* ------------------------------------------------------------------------

RECURSIVE read_varint_loop_63(_, _, _, _)
\* read_varint_loop giving up once 63 bits are read (seeded fault)
read_varint_loop_63(buf, pos, shift, result) ==
    IF pos >= Len(buf) THEN Raise("Unexpected end of data while reading varint")
    ELSE LET b  == buf[pos + 1]
             r2 == Append(result, b % 128)
         IN  IF b < 128 THEN [ok |-> TRUE, value |-> PyNat(r2), pos |-> pos + 1]
             ELSE IF shift + 7 >= 63 THEN Raise("Varint too big")
             ELSE read_varint_loop_63(buf, pos + 1, shift + 7, r2)

RECURSIVE read_varint_loop(_, _, _, _)
\* the while loop of read_varint; result holds the groups read so far
read_varint_loop(buf, pos, shift, result) ==
    IF pos >= Len(buf) THEN Raise("Unexpected end of data while reading varint")
    ELSE LET b  == buf[pos + 1]
             r2 == Append(result, b % 128)
         IN  IF b < 128 THEN [ok |-> TRUE, value |-> PyNat(r2), pos |-> pos + 1]
             ELSE IF shift + 7 > 70 THEN Raise("Varint too big")
             ELSE read_varint_loop(buf, pos + 1, shift + 7, r2)

read_varint(buf, off) == read_varint_loop(buf, off, 0, <<>>)

RECURSIVE encode_varint_loop_while_value(_)
\* encode_varint_loop written as `while value:`, which writes nothing for 0 (seeded fault)
encode_varint_loop_while_value(mag) ==
    IF mag = <<>> THEN <<>>
    ELSE IF Tail(mag) # <<>> THEN <<mag[1] + 128>> \o encode_varint_loop_while_value(Tail(mag))
    ELSE <<mag[1]>>

RECURSIVE encode_varint_loop(_)
\* the while loop of encode_varint on the magnitude of a value >= 0
encode_varint_loop(mag) ==
    LET to_write == IF mag = <<>> THEN 0 ELSE mag[1]
        rest     == IF mag = <<>> THEN <<>> ELSE Tail(mag)
    IN  IF rest # <<>> THEN <<to_write + 128>> \o encode_varint_loop(rest)
        ELSE <<to_write>>

encode_varint(value) ==
    encode_varint_loop((IF value.neg THEN IntAndMask(value, 64) ELSE value).mag)


\* ------------------------------------------------------------------------
\* Fixed-width integers and floats
\* ------------------------------------------------------------------------

\* bit k (from 0) of the little-endian number written in `width`-bit units
UnitBit(units, width, k) ==
    LET i == (k \div width) + 1 IN
    IF i > Len(units) THEN 0 ELSE (units[i] \div Pow2(k % width)) % 2

\* `n` units of `wout` bits holding the number that `units` holds in `win` bits
Regroup(units, win, wout, n) ==
    [i \in 1..n |->
        UnitBit(units, win, wout * (i - 1))
      + 2 * UnitBit(units, win, wout * (i - 1) + 1)
      + 4 * UnitBit(units, win, wout * (i - 1) + 2)
      + 8 * UnitBit(units, win, wout * (i - 1) + 3)
      + 16 * UnitBit(units, win, wout * (i - 1) + 4)
      + 32 * UnitBit(units, win, wout * (i - 1) + 5)
      + 64 * UnitBit(units, win, wout * (i - 1) + 6)
      + (IF wout = 8 THEN 128 * UnitBit(units, win, wout * (i - 1) + 7) ELSE 0)]

\* struct.unpack('<I' / '<Q'): nbytes little-endian bytes as an unsigned integer
UnpackLE(bs) == PyNat(Regroup(bs, 8, 7, ((8 * Len(bs)) + 6) \div 7))

\* struct.pack('<I' / '<Q') of a value already masked to 8 * nbytes bits
PackLE(value, nbytes) == Regroup(value.mag, 7, 8, nbytes)

\* data[a:b] with Python's clamping of the bounds, 0 <= a
Slice(buf, a, b) ==
    LET hi == IF b < Len(buf) THEN b ELSE Len(buf) IN
    IF a >= hi THEN <<>> ELSE SubSeq(buf, a + 1, hi)

read_fixed32(buf, off) ==
    IF off + 4 > Len(buf) THEN Raise("Not enough data for fixed32")
    ELSE [ok |-> TRUE, value |-> UnpackLE(Slice(buf, off, off + 4)), pos |-> off + 4]

read_fixed64(buf, off) ==
    IF off + 8 > Len(buf) THEN Raise("Not enough data for fixed64")
    ELSE [ok |-> TRUE, value |-> UnpackLE(Slice(buf, off, off + 8)), pos |-> off + 8]

\* encode_fixed32 packing with '<Q' (seeded fault)
encode_fixed32_Q(value) == PackLE(IntAndMask(value, 32), 8)

encode_fixed32(value) == PackLE(IntAndMask(value, 32), 4)

encode_fixed64(value) == PackLE(IntAndMask(value, 64), 8)

\* struct.unpack('<f', struct.pack('<I', raw)): the float with these single bits
FloatOfBits32(raw) == [f32 |-> raw]

\* struct.unpack('<d', struct.pack('<Q', raw)): the float with these double bits
FloatOfBits64(raw) == [f64 |-> raw]

\* the Python float 1e40: a double beyond the range of IEEE754 single, for
\* which struct.pack('<f', ...) raises OverflowError
FloatTooLarge == [f64 |-> PyNat(<<37, 57, 13, 14, 31, 101, 88, 30, 72>>)]

\* struct.unpack('<I', struct.pack('<f', float(value))) for a float that is a single
Bits32OfFloat(value) == value.f32

\* struct.unpack('<Q', struct.pack('<d', float(value)))
Bits64OfFloat(value) == value.f64

\* ------------------------------------------------------------------------
\* Strings
\* ------------------------------------------------------------------------

IsCont(buf, i) == i <= Len(buf) /\ buf[i] >= 128 /\ buf[i] <= 191

\* second byte of a three-byte sequence led by b
IsSecond3(buf, i, b) ==
    /\ IsCont(buf, i)
    /\ (b = 224 => buf[i] >= 160)
    /\ (b = 237 => buf[i] <= 159)

RECURSIVE utf8_decode_from(_, _)
\* bytes.decode('utf-8', errors='replace') from index i on, for buffers without
\* the lead bytes 0xF0..0xF4 of four-byte sequences: every ill-formed
\* subsequence becomes one U+FFFD
utf8_decode_from(buf, i) ==
    IF i > Len(buf) THEN <<>>
    ELSE LET b == buf[i] IN
         IF b < 128 THEN <<b>> \o utf8_decode_from(buf, i + 1)
         ELSE IF b >= 194 /\ b <= 223 /\ IsCont(buf, i + 1)
              THEN <<(b - 192) * 64 + (buf[i + 1] - 128)>> \o utf8_decode_from(buf, i + 2)
         ELSE IF b >= 224 /\ b <= 239 /\ IsSecond3(buf, i + 1, b)
              THEN IF IsCont(buf, i + 2)
                   THEN <<(b - 224) * 4096 + (buf[i + 1] - 128) * 64 + (buf[i + 2] - 128)>>
                        \o utf8_decode_from(buf, i + 3)
                   ELSE <<65533>> \o utf8_decode_from(buf, i + 2)
         ELSE <<65533>> \o utf8_decode_from(buf, i + 1)

utf8_decode(buf) == [str |-> utf8_decode_from(buf, 1)]

RECURSIVE utf8_encode_from(_, _)
\* str.encode('utf-8') for code points below 0x10000
utf8_encode_from(cps, i) ==
    IF i > Len(cps) THEN <<>>
    ELSE LET c == cps[i] IN
         (IF c < 128 THEN <<c>>
          ELSE IF c < 2048 THEN <<192 + (c \div 64), 128 + (c % 64)>>
          ELSE <<224 + (c \div 4096), 128 + ((c \div 64) % 64), 128 + (c % 64)>>)
         \o utf8_encode_from(cps, i + 1)

utf8_encode(s) == utf8_encode_from(s.str, 1)

\* ------------------------------------------------------------------------
\* Value message (the oneof)
\* ------------------------------------------------------------------------

WIRE_VARINT == 0

WIRE_64BIT == 1

WIRE_LENGTH == 2

WIRE_32BIT == 5

NoneName == "None"

PyNone == [none |-> TRUE]

PyBool(b) == [bool |-> b]

PyList(xs) == [list |-> xs]

\* field_num == n for the small number n
IsField(field_num, n) == field_num = PyNat(NatMag(n))

\* found[t] = v
DictPut(found, t, v) ==
    [k \in DOMAIN found \cup {t} |-> IF k = t THEN v ELSE found[k]]

TypeOrder == <<"boolean", "float", "integer", "long", "string", "string_set", "double">>

\* ToInteger comparing with < instead of <= (seeded fault)
ToInteger_lt(v) ==
    IF ~IntLE(PyNat(MagSub(MagPow2(31), <<1>>)), v) THEN v ELSE IntSub(v, PyNat(MagPow2(32)))

\* found['integer'] = v if v <= 0x7fffffff else v - (1 << 32)
ToInteger(v) ==
    IF IntLE(v, PyNat(MagSub(MagPow2(31), <<1>>))) THEN v ELSE IntSub(v, PyNat(MagPow2(32)))

\* found['long'] = v if v <= 0x7fffffffffffffff else v - (1 << 64)
ToLong(v) ==
    IF IntLE(v, PyNat(MagSub(MagPow2(63), <<1>>))) THEN v ELSE IntSub(v, PyNat(MagPow2(64)))

\* SkipField with the widths of the two fixed-width wire types swapped (seeded fault)
SkipField_swapped(buf, off, wire, unknown) ==
    IF wire = WIRE_VARINT THEN
        LET r == read_varint(buf, off) IN
        IF r.ok THEN [ok |-> TRUE, pos |-> r.pos, stop |-> FALSE] ELSE r
    ELSE IF wire = WIRE_64BIT THEN [ok |-> TRUE, pos |-> off + 4, stop |-> FALSE]
    ELSE IF wire = WIRE_LENGTH THEN
        LET r == read_varint(buf, off) IN
        IF r.ok THEN [ok |-> TRUE, pos |-> r.pos + IntToNat(r.value), stop |-> FALSE] ELSE r
    ELSE IF wire = WIRE_32BIT THEN [ok |-> TRUE, pos |-> off + 8, stop |-> FALSE]
    ELSE unknown

\* The skip of an unknown field by its wire type, written out four times in the
\* source (Value message, string_set, MapEntry, top level) with the same four
\* branches; `unknown` is what the caller does for any other wire type.
SkipField(buf, off, wire, unknown) ==
    IF wire = WIRE_VARINT THEN
        LET r == read_varint(buf, off) IN
        IF r.ok THEN [ok |-> TRUE, pos |-> r.pos, stop |-> FALSE] ELSE r
    ELSE IF wire = WIRE_64BIT THEN [ok |-> TRUE, pos |-> off + 8, stop |-> FALSE]
    ELSE IF wire = WIRE_LENGTH THEN
        LET r == read_varint(buf, off) IN
        IF r.ok THEN [ok |-> TRUE, pos |-> r.pos + IntToNat(r.value), stop |-> FALSE] ELSE r
    ELSE IF wire = WIRE_32BIT THEN [ok |-> TRUE, pos |-> off + 4, stop |-> FALSE]
    ELSE unknown

RECURSIVE string_set_loop(_, _, _)
\* the inner while loop of field 6: [ok, arr] or a raised error
string_set_loop(sub, suboff, arr) ==
    IF suboff >= Len(sub) THEN [ok |-> TRUE, arr |-> arr]
    ELSE LET t == read_varint(sub, suboff) IN
         IF ~t.ok THEN t
         ELSE LET sfield == IntShr3(t.value)
                  swire  == IntAnd7(t.value)
              IN  IF IsField(sfield, 1) /\ swire = WIRE_LENGTH THEN
                      LET l == read_varint(sub, t.pos) IN
                      IF ~l.ok THEN l
                      ELSE LET sln == IntToNat(l.value) IN
                           string_set_loop(sub, l.pos + sln,
                               Append(arr, utf8_decode(Slice(sub, l.pos, l.pos + sln))))
                  ELSE LET k == SkipField(sub, t.pos, swire,
                                          [ok |-> TRUE, pos |-> t.pos, stop |-> TRUE])
                       IN  IF ~k.ok THEN k
                           ELSE IF k.stop THEN [ok |-> TRUE, arr |-> arr]
                           ELSE string_set_loop(sub, k.pos, arr)

RECURSIVE first_found_reversed(_, _)
\* first_found walking the list from its end (seeded fault); called with i = 1
first_found_reversed(found, i) ==
    LET j == Len(TypeOrder) + 1 - i IN
    IF i > Len(TypeOrder) THEN <<NoneName, PyNone>>
    ELSE IF TypeOrder[j] \in DOMAIN found THEN <<TypeOrder[j], found[TypeOrder[j]]>>
    ELSE first_found_reversed(found, i + 1)

RECURSIVE first_found_short(_, _)
\* first_found that never looks at the last name of the list (seeded fault)
first_found_short(found, i) ==
    IF i >= Len(TypeOrder) THEN <<NoneName, PyNone>>
    ELSE IF TypeOrder[i] \in DOMAIN found THEN <<TypeOrder[i], found[TypeOrder[i]]>>
    ELSE first_found_short(found, i + 1)

\* the closing for loop: the first type of TypeOrder that was found
RECURSIVE first_found(_, _)
first_found(found, i) ==
    IF i > Len(TypeOrder) THEN <<NoneName, PyNone>>
    ELSE IF TypeOrder[i] \in DOMAIN found THEN <<TypeOrder[i], found[TypeOrder[i]]>>
    ELSE first_found(found, i + 1)

RECURSIVE parse_value_loop(_, _, _)
\* the while loop of parse_value_message and its closing for loop
parse_value_loop(buf, off, found) ==
    IF off >= Len(buf) THEN [ok |-> TRUE, value |-> first_found(found, 1)]
    ELSE
    LET t == read_varint(buf, off) IN
    IF ~t.ok THEN t
    ELSE
    LET field_num == IntShr3(t.value)
        wire      == IntAnd7(t.value)
    IN
    IF IsField(field_num, 1) /\ wire = WIRE_VARINT THEN
        LET v == read_varint(buf, t.pos) IN
        IF ~v.ok THEN v
        ELSE parse_value_loop(buf, v.pos, DictPut(found, "boolean", PyBool(v.value.mag # <<>>)))
    ELSE IF IsField(field_num, 2) /\ wire = WIRE_32BIT THEN
        LET raw == read_fixed32(buf, t.pos) IN
        IF ~raw.ok THEN raw
        ELSE parse_value_loop(buf, raw.pos, DictPut(found, "float", FloatOfBits32(raw.value)))
    ELSE IF IsField(field_num, 3) /\ wire = WIRE_VARINT THEN
        LET v == read_varint(buf, t.pos) IN
        IF ~v.ok THEN v
        ELSE parse_value_loop(buf, v.pos, DictPut(found, "integer", ToInteger(v.value)))
    ELSE IF IsField(field_num, 4) /\ wire = WIRE_VARINT THEN
        LET v == read_varint(buf, t.pos) IN
        IF ~v.ok THEN v
        ELSE parse_value_loop(buf, v.pos, DictPut(found, "long", ToLong(v.value)))
    ELSE IF IsField(field_num, 5) /\ wire = WIRE_LENGTH THEN
        LET l == read_varint(buf, t.pos) IN
        IF ~l.ok THEN l
        ELSE LET ln == IntToNat(l.value) IN
             IF l.pos + ln > Len(buf) THEN Raise("Truncated string")
             ELSE parse_value_loop(buf, l.pos + ln,
                      DictPut(found, "string", utf8_decode(Slice(buf, l.pos, l.pos + ln))))
    ELSE IF IsField(field_num, 6) /\ wire = WIRE_LENGTH THEN
        LET l == read_varint(buf, t.pos) IN
        IF ~l.ok THEN l
        ELSE LET ln == IntToNat(l.value) IN
             IF l.pos + ln > Len(buf) THEN Raise("Truncated string_set")
             ELSE LET s == string_set_loop(Slice(buf, l.pos, l.pos + ln), 0, <<>>) IN
                  IF ~s.ok THEN s
                  ELSE parse_value_loop(buf, l.pos + ln,
                           DictPut(found, "string_set", PyList(s.arr)))
    ELSE IF IsField(field_num, 7) /\ wire = WIRE_64BIT THEN
        LET raw == read_fixed64(buf, t.pos) IN
        IF ~raw.ok THEN raw
        ELSE parse_value_loop(buf, raw.pos, DictPut(found, "double", FloatOfBits64(raw.value)))
    ELSE
        LET k == SkipField(buf, t.pos, wire, Raise("Unknown wire type encountered")) IN
        IF ~k.ok THEN k ELSE parse_value_loop(buf, k.pos, found)

EmptyDict == [k \in {} |-> PyNone]

parse_value_message(buf) == parse_value_loop(buf, 0, EmptyDict)


RECURSIVE string_set_inner_unique(_, _)
\* string_set_inner that writes each distinct string once (seeded fault)
string_set_inner_unique(xs, i) ==
    IF i > Len(xs) THEN <<>>
    ELSE LET sb == utf8_encode(xs[i]) IN
         (IF \E j \in 1..(i - 1) : xs[j] = xs[i] THEN <<>>
          ELSE encode_varint(PyNat(NatMag(1 * 8 + WIRE_LENGTH)))
               \o encode_varint(PyNat(NatMag(Len(sb))))
               \o sb)
         \o string_set_inner_unique(xs, i + 1)

RECURSIVE string_set_inner(_, _)
\* the for loop of the string_set branch: the bytes of the inner message
string_set_inner(xs, i) ==
    IF i > Len(xs) THEN <<>>
    ELSE LET sb == utf8_encode(xs[i]) IN
         encode_varint(PyNat(NatMag(1 * 8 + WIRE_LENGTH)))
         \o encode_varint(PyNat(NatMag(Len(sb))))
         \o sb
         \o string_set_inner(xs, i + 1)

\* encode_value_message without its closing else: no part is appended for an
\* unknown type name (seeded fault)
encode_value_message_no_else(type_name, value) ==
    IF type_name = "boolean" THEN
        [ok |-> TRUE, bytes |->
            encode_varint(PyNat(NatMag(1 * 8 + WIRE_VARINT)))
            \o encode_varint(PyNat(NatMag(IF value.bool THEN 1 ELSE 0)))]
    ELSE IF type_name = "float" THEN
        IF value = FloatTooLarge THEN Raise("float too large to pack with f format")
        ELSE
        [ok |-> TRUE, bytes |->
            encode_varint(PyNat(NatMag(2 * 8 + WIRE_32BIT)))
            \o encode_fixed32(Bits32OfFloat(value))]
    ELSE IF type_name = "integer" THEN
        [ok |-> TRUE, bytes |->
            encode_varint(PyNat(NatMag(3 * 8 + WIRE_VARINT))) \o encode_varint(value)]
    ELSE IF type_name = "long" THEN
        [ok |-> TRUE, bytes |->
            encode_varint(PyNat(NatMag(4 * 8 + WIRE_VARINT))) \o encode_varint(value)]
    ELSE IF type_name = "string" THEN
        LET b == utf8_encode(value) IN
        [ok |-> TRUE, bytes |->
            encode_varint(PyNat(NatMag(5 * 8 + WIRE_LENGTH)))
            \o encode_varint(PyNat(NatMag(Len(b))))
            \o b]
    ELSE IF type_name = "string_set" THEN
        LET inner_bytes == string_set_inner(value.list, 1) IN
        [ok |-> TRUE, bytes |->
            encode_varint(PyNat(NatMag(6 * 8 + WIRE_LENGTH)))
            \o encode_varint(PyNat(NatMag(Len(inner_bytes))))
            \o inner_bytes]
    ELSE IF type_name = "double" THEN
        [ok |-> TRUE, bytes |->
            encode_varint(PyNat(NatMag(7 * 8 + WIRE_64BIT)))
            \o encode_fixed64(Bits64OfFloat(value))]
    ELSE [ok |-> TRUE, bytes |-> <<>>]

\* the bytes encode_value_message returns, or the error it raises
encode_value_message(type_name, value) ==
    IF type_name = "boolean" THEN
        [ok |-> TRUE, bytes |->
            encode_varint(PyNat(NatMag(1 * 8 + WIRE_VARINT)))
            \o encode_varint(PyNat(NatMag(IF value.bool THEN 1 ELSE 0)))]
    ELSE IF type_name = "float" THEN
        IF value = FloatTooLarge THEN Raise("float too large to pack with f format")
        ELSE
        [ok |-> TRUE, bytes |->
            encode_varint(PyNat(NatMag(2 * 8 + WIRE_32BIT)))
            \o encode_fixed32(Bits32OfFloat(value))]
    ELSE IF type_name = "integer" THEN
        [ok |-> TRUE, bytes |->
            encode_varint(PyNat(NatMag(3 * 8 + WIRE_VARINT))) \o encode_varint(value)]
    ELSE IF type_name = "long" THEN
        [ok |-> TRUE, bytes |->
            encode_varint(PyNat(NatMag(4 * 8 + WIRE_VARINT))) \o encode_varint(value)]
    ELSE IF type_name = "string" THEN
        LET b == utf8_encode(value) IN
        [ok |-> TRUE, bytes |->
            encode_varint(PyNat(NatMag(5 * 8 + WIRE_LENGTH)))
            \o encode_varint(PyNat(NatMag(Len(b))))
            \o b]
    ELSE IF type_name = "string_set" THEN
        LET inner_bytes == string_set_inner(value.list, 1) IN
        [ok |-> TRUE, bytes |->
            encode_varint(PyNat(NatMag(6 * 8 + WIRE_LENGTH)))
            \o encode_varint(PyNat(NatMag(Len(inner_bytes))))
            \o inner_bytes]
    ELSE IF type_name = "double" THEN
        [ok |-> TRUE, bytes |->
            encode_varint(PyNat(NatMag(7 * 8 + WIRE_64BIT)))
            \o encode_fixed64(Bits64OfFloat(value))]
    ELSE Raise("Unknown type for encoding: " \o type_name)

\* ------------------------------------------------------------------------
\* Files and the editor before any file is chosen
\* ------------------------------------------------------------------------

\* the backup path of save_file
Bak(path) == path \o ".bak"

\* the paths a file dialog may return
UserPaths == {"p", Bak("p")}

\* every path a handler may touch
DiskPaths == UserPaths \cup { Bak(path) : path \in UserPaths }

\* PrefEditorApp.__init__: no file name, an empty dict, disabled widgets
InitApp ==
    /\ self_filename = PyNone
    /\ self_pref_dict = <<>>
    /\ loaded = FALSE
    /\ dialog = <<"Ready">>

\* the threads a zip worker can run in
Threads == { "t1", "t2" }

\* a thread no backup has been started in
IdleWorker == [state |-> "idle", left |-> 0, written |-> 0]

\* the Backup Creator after __init__: nothing selected, the checkbox set, the
\* Create button as it is built, no worker
InitBackupCreator ==
    /\ preferences_file = PyNone
    /\ additional_files = <<>>
    /\ tree = <<>>
    /\ pb_mandatory = TRUE
    /\ create_btn = "normal"
    /\ progress_q = <<>>
    /\ workers = [t \in Threads |-> IdleWorker]
    /\ handled = [t \in Threads |-> <<>>]

\* the codec calls run outside the editor: no file exists
NoSession ==
    /\ InitApp
    /\ InitBackupCreator
    /\ disk = [path \in DiskPaths |-> PyNone]

\* ------------------------------------------------------------------------
\* Top-level PreferenceMap
\* A dict is the sequence of its <<key, value>> items in insertion order.
\* ------------------------------------------------------------------------

DictKeys(d) == { d[i][1] : i \in 1..Len(d) }

DictGet(d, key) == (CHOOSE i \in 1..Len(d) : d[i][1] = key)

\* DictSet that keeps the value a key already has (seeded fault)
DictSet_setdefault(d, key, v) ==
    IF key \in DictKeys(d) THEN d ELSE Append(d, <<key, v>>)

\* d[key] = v: replaces the value in place or appends a new item
DictSet(d, key, v) ==
    IF key \in DictKeys(d)
    THEN [i \in 1..Len(d) |-> IF d[i][1] = key THEN <<key, v>> ELSE d[i]]
    ELSE Append(d, <<key, v>>)

\* d1 == d2 for dicts: the same keys with the same values, in any order
DictEq(d1, d2) ==
    /\ DictKeys(d1) = DictKeys(d2)
    /\ \A i \in 1..Len(d1) : d1[i][2] = d2[DictGet(d2, d1[i][1])][2]

RECURSIVE map_entry_loop(_, _, _, _)
\* the while loop over one MapEntry: [ok, key, val_bytes] where key and
\* val_bytes are PyNone while unset, or a raised error
map_entry_loop(entry, eoff, key, val_bytes) ==
    IF eoff >= Len(entry) THEN [ok |-> TRUE, key |-> key, val_bytes |-> val_bytes]
    ELSE
    LET t == read_varint(entry, eoff) IN
    IF ~t.ok THEN t
    ELSE
    LET efnum == IntShr3(t.value)
        ewire == IntAnd7(t.value)
    IN
    IF IsField(efnum, 1) /\ ewire = WIRE_LENGTH THEN
        LET l == read_varint(entry, t.pos) IN
        IF ~l.ok THEN l
        ELSE LET klen == IntToNat(l.value) IN
             map_entry_loop(entry, l.pos + klen,
                 utf8_decode(Slice(entry, l.pos, l.pos + klen)), val_bytes)
    ELSE IF IsField(efnum, 2) /\ ewire = WIRE_LENGTH THEN
        LET l == read_varint(entry, t.pos) IN
        IF ~l.ok THEN l
        ELSE LET vlen == IntToNat(l.value) IN
             map_entry_loop(entry, l.pos + vlen, key,
                 [bytes |-> Slice(entry, l.pos, l.pos + vlen)])
    ELSE
        LET k == SkipField(entry, t.pos, ewire, Raise("Unknown wire inside map entry")) IN
        IF ~k.ok THEN k ELSE map_entry_loop(entry, k.pos, key, val_bytes)

RECURSIVE parse_preferences_loop_any_key(_, _, _)
\* parse_preferences_loop without the test `key is not None` (seeded fault)
parse_preferences_loop_any_key(raw_bytes, off, res) ==
    IF off >= Len(raw_bytes) THEN [ok |-> TRUE, value |-> res]
    ELSE
    LET t == read_varint(raw_bytes, off) IN
    IF ~t.ok THEN t
    ELSE
    LET field_num == IntShr3(t.value)
        wire      == IntAnd7(t.value)
    IN
    IF IsField(field_num, 1) /\ wire = WIRE_LENGTH THEN
        LET l == read_varint(raw_bytes, t.pos) IN
        IF ~l.ok THEN l
        ELSE
        LET length == IntToNat(l.value)
            e == map_entry_loop(Slice(raw_bytes, l.pos, l.pos + length), 0, PyNone, PyNone)
        IN
        IF ~e.ok THEN e
        ELSE IF e.val_bytes = PyNone
            THEN parse_preferences_loop_any_key(raw_bytes, l.pos + length,
                     DictSet(res, e.key, <<NoneName, PyNone>>))
            ELSE LET v == parse_value_message(e.val_bytes.bytes) IN
                 IF ~v.ok THEN v
                 ELSE parse_preferences_loop_any_key(raw_bytes, l.pos + length,
                          DictSet(res, e.key, v.value))
    ELSE
        LET k == SkipField(raw_bytes, t.pos, wire, Raise("Unknown top-level wire")) IN
        IF ~k.ok THEN k ELSE parse_preferences_loop_any_key(raw_bytes, k.pos, res)

RECURSIVE parse_preferences_loop(_, _, _)
\* the while loop of parse_preferences_pb: [ok, value |-> res] or a raised error
parse_preferences_loop(raw_bytes, off, res) ==
    IF off >= Len(raw_bytes) THEN [ok |-> TRUE, value |-> res]
    ELSE
    LET t == read_varint(raw_bytes, off) IN
    IF ~t.ok THEN t
    ELSE
    LET field_num == IntShr3(t.value)
        wire      == IntAnd7(t.value)
    IN
    IF IsField(field_num, 1) /\ wire = WIRE_LENGTH THEN
        LET l == read_varint(raw_bytes, t.pos) IN
        IF ~l.ok THEN l
        ELSE
        LET length == IntToNat(l.value)
            e == map_entry_loop(Slice(raw_bytes, l.pos, l.pos + length), 0, PyNone, PyNone)
        IN
        IF ~e.ok THEN e
        ELSE IF e.key # PyNone THEN
            IF e.val_bytes = PyNone
            THEN parse_preferences_loop(raw_bytes, l.pos + length,
                     DictSet(res, e.key, <<NoneName, PyNone>>))
            ELSE LET v == parse_value_message(e.val_bytes.bytes) IN
                 IF ~v.ok THEN v
                 ELSE parse_preferences_loop(raw_bytes, l.pos + length,
                          DictSet(res, e.key, v.value))
        ELSE parse_preferences_loop(raw_bytes, l.pos + length, res)
    ELSE
        LET k == SkipField(raw_bytes, t.pos, wire, Raise("Unknown top-level wire")) IN
        IF ~k.ok THEN k ELSE parse_preferences_loop(raw_bytes, k.pos, res)

parse_preferences_pb(raw_bytes) == parse_preferences_loop(raw_bytes, 0, <<>>)

RECURSIVE encode_preferences_loop_always_value(_, _)
\* encode_preferences_loop without the test `tname is not None`: an empty
\* field 2 is written for (None, None) (seeded fault)
encode_preferences_loop_always_value(pref_dict, i) ==
    IF i > Len(pref_dict) THEN [ok |-> TRUE, bytes |-> <<>>]
    ELSE
    LET key    == pref_dict[i][1]
        tname  == pref_dict[i][2][1]
        value  == pref_dict[i][2][2]
        kbytes == utf8_encode(key)
        head   == encode_varint(PyNat(NatMag(1 * 8 + WIRE_LENGTH)))
                  \o encode_varint(PyNat(NatMag(Len(kbytes))))
                  \o kbytes
        v      == IF tname # NoneName THEN encode_value_message(tname, value)
                  ELSE [ok |-> TRUE, bytes |-> <<>>]
    IN
    IF ~v.ok THEN v
    ELSE
    LET entry_bytes ==
            head
            \o encode_varint(PyNat(NatMag(2 * 8 + WIRE_LENGTH)))
            \o encode_varint(PyNat(NatMag(Len(v.bytes))))
            \o v.bytes
        rest == encode_preferences_loop_always_value(pref_dict, i + 1)
    IN
    IF ~rest.ok THEN rest
    ELSE [ok |-> TRUE, bytes |->
            encode_varint(PyNat(NatMag(1 * 8 + WIRE_LENGTH)))
            \o encode_varint(PyNat(NatMag(Len(entry_bytes))))
            \o entry_bytes
            \o rest.bytes]

RECURSIVE encode_preferences_loop(_, _)
\* the for loop of encode_preferences_dict from item i on
encode_preferences_loop(pref_dict, i) ==
    IF i > Len(pref_dict) THEN [ok |-> TRUE, bytes |-> <<>>]
    ELSE
    LET key    == pref_dict[i][1]
        tname  == pref_dict[i][2][1]
        value  == pref_dict[i][2][2]
        kbytes == utf8_encode(key)
        head   == encode_varint(PyNat(NatMag(1 * 8 + WIRE_LENGTH)))
                  \o encode_varint(PyNat(NatMag(Len(kbytes))))
                  \o kbytes
        v      == IF tname # NoneName THEN encode_value_message(tname, value)
                  ELSE [ok |-> TRUE, bytes |-> <<>>]
    IN
    IF ~v.ok THEN v
    ELSE
    LET entry_bytes ==
            IF tname # NoneName
            THEN head
                 \o encode_varint(PyNat(NatMag(2 * 8 + WIRE_LENGTH)))
                 \o encode_varint(PyNat(NatMag(Len(v.bytes))))
                 \o v.bytes
            ELSE head
        rest == encode_preferences_loop(pref_dict, i + 1)
    IN
    IF ~rest.ok THEN rest
    ELSE [ok |-> TRUE, bytes |->
            encode_varint(PyNat(NatMag(1 * 8 + WIRE_LENGTH)))
            \o encode_varint(PyNat(NatMag(Len(entry_bytes))))
            \o entry_bytes
            \o rest.bytes]

encode_preferences_dict(pref_dict) == encode_preferences_loop(pref_dict, 1)


\* ------------------------------------------------------------------------
\* The varint calls: encode_varint(arg), then read_varint(data, offset)
\* ------------------------------------------------------------------------

\* groups a generated varint argument may have
MaxGroups == 11

\* continuation bytes a raw varint buffer may start with
MaxCont == 12

Zero == PyNat(<<>>)

U64Max == PyNat([i \in 1..9 |-> 127] \o <<1>>)

IsU64(v) == ~v.neg /\ MagLE(v.mag, U64Max.mag)

\* magnitudes of n groups: the low groups all alike, any top group
PatternMags(n) ==
    { [i \in 1..(n - 1) |-> low] \o <<top>> : low \in {0, 1, 127}, top \in {1, 2, 64, 127} }

VarintArgs ==
    {Zero}
    \cup { PyInt(neg, m) : neg \in BOOLEAN,
                           m \in UNION { PatternMags(n) : n \in 1..MaxGroups } }

\* raw buffers: k continuation bytes, a last byte or none, a byte after it or none
RawVarints ==
    { [i \in 1..k |-> c] \o last \o after :
        k \in 0..MaxCont, c \in {128, 129, 255},
        last \in {<<>>, <<0>>, <<1>>, <<2>>, <<7>>, <<8>>, <<127>>},
        after \in {<<>>, <<255>>} }

InitVarint ==
    /\ NoSession
    /\ ret = NotCalled
    /\ \/ /\ pc = "encode"
          /\ origin = "encoder"
          /\ arg \in VarintArgs
          /\ data = <<>>
          /\ offset = 0
       \/ /\ pc = "decode"
          /\ origin = "raw"
          /\ arg = Zero
          /\ data \in RawVarints
          /\ offset \in 0..1

CallEncodeVarint ==
    /\ pc = "encode"
    /\ data' = encode_varint(arg)
    /\ pc' = "decode"
    /\ UNCHANGED <<origin, arg, offset, ret>>
    /\ UNCHANGED <<editor_vars, backup_vars>>

CallReadVarint ==
    /\ pc = "decode"
    /\ ret' = read_varint(data, offset)
    /\ pc' = "done"
    /\ UNCHANGED <<origin, arg, data, offset>>
    /\ UNCHANGED <<editor_vars, backup_vars>>

NextVarint == CallEncodeVarint \/ CallReadVarint

SpecVarint == InitVarint /\ [][NextVarint]_vars


\* C5: varint round trip. For every unsigned 64-bit v, read_varint of
\* encode_varint(v) at offset 0 returns v and the length of the encoding.
C5_VarintRoundTrip ==
    (pc = "done" /\ origin = "encoder" /\ IsU64(arg))
        => (ret.ok /\ ret.value = arg /\ ret.pos = Len(data))

C5_Witness ==
    /\ pc = "done"
    /\ origin = "encoder"
    /\ arg = U64Max
    /\ ret.ok
    /\ ret.pos = 10

\* the first ten bytes from the offset on all carry the continuation bit, and
\* an eleventh byte follows
MoreThanTenGroups(buf, off) ==
    /\ Len(buf) >= off + 11
    /\ \A i \in (off + 1)..(off + 10) : buf[i] >= 128

\* C6: varint decode is bounded to unsigned 64-bit. A successful read_varint
\* has consumed at most 10 bytes and returns a value in 0..2^64-1, and a
\* sequence needing more than 10 groups fails with "Varint too big".
C6_VarintBounded ==
    (pc = "done")
        => /\ ret.ok => (ret.pos - offset <= 10 /\ IsU64(ret.value))
           /\ MoreThanTenGroups(data, offset) => ret = Raise("Varint too big")

\* C7: varint boundary. encode_varint(0) is the single byte 0x00, and
\* encode_varint(2^64-1) is 10 bytes, the first nine with the continuation
\* bit and the last without.
C7_VarintBoundary ==
    (pc # "encode" /\ origin = "encoder")
        => /\ arg = Zero => data = <<0>>
           /\ arg = U64Max =>
                /\ Len(data) = 10
                /\ \A i \in 1..9 : data[i] >= 128
                /\ data[10] < 128

C7_Witness ==
    /\ pc = "decode"
    /\ origin = "encoder"
    /\ arg = U64Max
    /\ Len(data) = 10


\* ------------------------------------------------------------------------
\* The Value calls: encode_value_message for each item of arg, the outputs
\* joined into one message, then parse_value_message(data)
\* ------------------------------------------------------------------------

\* fields a built Value message may hold
MaxFields == 2

Str(cps) == [str |-> cps]

Int32Max == PyNat(<<127, 127, 127, 127, 7>>)

Int32Min == PyInt(TRUE, <<0, 0, 0, 0, 8>>)

Int64Max == PyNat([i \in 1..9 |-> 127])

Int64Min == PyInt(TRUE, [i \in 1..9 |-> 0] \o <<1>>)

MinusOne == PyInt(TRUE, <<1>>)

\* (type, value) pairs, some of every variant
ValueSamples ==
    { <<"boolean", PyBool(b)>> : b \in BOOLEAN }
    \cup { <<"float", FloatOfBits32(PyNat(m))>> : m \in {<<>>, <<0, 0, 0, 124, 3>>} }
    \cup { <<"integer", n>> : n \in {Zero, PyNat(<<1>>), MinusOne, Int32Max, Int32Min} }
    \cup { <<"long", n>> : n \in {Zero, MinusOne, Int64Max, Int64Min, PyNat(<<0, 0, 0, 0, 16>>)} }
    \cup { <<"string", Str(c)>> : c \in {<<>>, <<97>>, <<233, 98>>} }
    \cup { <<"string_set", PyList(l)>> :
             l \in {<<>>, <<Str(<<97>>)>>, <<Str(<<>>)>>,
                    <<Str(<<97>>), Str(<<98>>), Str(<<97>>)>>,
                    <<Str(<<>>), Str(<<233, 8364>>), Str(<<>>), Str(<<233, 8364>>)>>,
                    [i \in 1..4 |-> Str([j \in 1..32 |-> 97])]} }
    \cup { <<"double", FloatOfBits64(PyNat(m))>> : m \in {<<>>, <<0, 0, 0, 0, 0, 0, 0, 64, 127>>} }

RECURSIVE SeqsOf(_, _)
\* the sequences of 1..n members of S
SeqsOf(S, n) ==
    IF n = 0 THEN {}
    ELSE { <<x>> : x \in S } \cup { Append(q, x) : q \in SeqsOf(S, n - 1), x \in S }

\* the bodies of string_set submessages: elements, unknown inner fields of the
\* four wire types, inner fields of an unsupported wire type
InnerSamples ==
    { <<>>, <<10, 1, 97>>, <<10, 1, 97, 10, 0>>,
      <<8, 5, 10, 1, 97>>, <<17, 1, 2, 3, 4, 5, 6, 7, 8, 10, 1, 97>>,
      <<18, 2, 10, 1, 10, 1, 97>>, <<21, 1, 2, 3, 4, 10, 1, 97>>,
      <<11, 10, 1, 97>>, <<10, 1, 97, 12>>, <<14>>, <<15, 10, 1, 97>> }

\* fields of a field number the Value message does not have, of the four wire
\* types and of the unsupported ones, and known numbers with another wire type
OtherValueFields ==
    { <<72, 5>>, <<73, 1, 2, 3, 4, 5, 6, 7, 8>>, <<74, 2, 8, 1>>, <<77, 1, 2, 3, 4>>,
      <<75>>, <<76, 1>>, <<78>>, <<79>>, <<10, 1, 8>>, <<29, 1, 2, 3, 4>>, <<49, 1, 2, 3, 4, 5, 6, 7, 8>> }

RawValueMessages ==
    { <<tag>> \o v : tag \in {8, 24, 32}, v \in RawVarints }
    \cup { <<50, Len(inner)>> \o inner : inner \in InnerSamples }
    \cup { f \o g : f \in OtherValueFields \cup {<<>>},
                    g \in OtherValueFields \cup {<<8, 1>>, <<42, 1, 97>>} }

RECURSIVE JoinValues(_, _)
\* the outputs of encode_value_message for the items of vs from i on, joined
JoinValues(vs, i) ==
    IF i > Len(vs) THEN <<>>
    ELSE encode_value_message(vs[i][1], vs[i][2]).bytes \o JoinValues(vs, i + 1)

InitValue ==
    /\ NoSession
    /\ ret = NotCalled
    /\ offset = 0
    /\ \/ /\ pc = "encode"
          /\ origin = "encoder"
          /\ arg \in SeqsOf(ValueSamples, MaxFields)
          /\ data = <<>>
       \/ /\ pc = "decode"
          /\ origin = "raw"
          /\ arg = <<>>
          /\ data \in RawValueMessages

CallEncodeValue ==
    /\ pc = "encode"
    /\ data' = JoinValues(arg, 1)
    /\ pc' = "decode"
    /\ UNCHANGED <<origin, arg, offset, ret>>
    /\ UNCHANGED <<editor_vars, backup_vars>>

CallParseValue ==
    /\ pc = "decode"
    /\ ret' = parse_value_message(data)
    /\ pc' = "done"
    /\ UNCHANGED <<origin, arg, data, offset>>
    /\ UNCHANGED <<editor_vars, backup_vars>>

NextValue == CallEncodeValue \/ CallParseValue

SpecValue == InitValue /\ [][NextValue]_vars

\* the signed two's-complement value of the low w bits of v >= 0
TwosComplement(v, w) ==
    LET low == MagLow(v.mag, w) IN
    IF MagLT(low, MagPow2(w - 1)) THEN PyNat(low)
    ELSE PyInt(TRUE, MagSub(MagPow2(w), low))

\* C3: signed reinterpretation on decode. For every varint v that read_varint
\* returns, field 3 decodes to the signed value of the low 32 bits of v and
\* field 4 to the signed value of the low 64 bits of v.
C3_SignedReinterpretation ==
    LET v == read_varint(data, 1) IN
    (pc = "done" /\ origin = "raw" /\ Len(data) > 1 /\ data[1] \in {24, 32}
        /\ v.ok /\ v.pos = Len(data))
        => /\ ret.ok
           /\ data[1] = 24 => ret.value = <<"integer", TwosComplement(v.value, 32)>>
           /\ data[1] = 32 => ret.value = <<"long", TwosComplement(v.value, 64)>>

\* C4: int32 sign boundary. Field 3 with the varint of 0x7fffffff decodes to
\* Integer +2147483647, and with the varint of 0x80000000 to Integer -2147483648.
C4_Int32SignBoundary ==
    (pc = "done")
        => /\ data = <<24, 255, 255, 255, 255, 7>>
                => ret = [ok |-> TRUE, value |-> <<"integer", Int32Max>>]
           /\ data = <<24, 128, 128, 128, 128, 8>>
                => ret = [ok |-> TRUE, value |-> <<"integer", Int32Min>>]

C4_Witness ==
    /\ pc = "done"
    /\ data = <<24, 128, 128, 128, 128, 8>>
    /\ ret.ok
    /\ ret.value[2].neg

\* the place of a type name in the priority order of the oneof
Priority(t) ==
    CASE t = "boolean" -> 1 [] t = "float" -> 2 [] t = "integer" -> 3 [] t = "long" -> 4
      [] t = "string" -> 5 [] t = "string_set" -> 6 [] t = "double" -> 7

\* the last item of vs that has the type t
LastOfType(vs, t) ==
    vs[CHOOSE i \in 1..Len(vs) : vs[i][1] = t /\ \A j \in (i + 1)..Len(vs) : vs[j][1] # t]

\* C10: first-match-wins. A Value message with several known fields decodes
\* to the variant that is first in the order Boolean, Float, Integer, Long,
\* String, StringSet, Double, in whatever order the fields are in the bytes,
\* with the value that field decodes to alone.
C10_FirstMatchWins ==
    (pc = "done" /\ origin = "encoder" /\ Len(arg) >= 2)
        => /\ ret.ok
           /\ \E i \in 1..Len(arg) : ret.value[1] = arg[i][1]
           /\ \A i \in 1..Len(arg) : Priority(ret.value[1]) <= Priority(arg[i][1])
           /\ ret.value = parse_value_message(JoinValues(<<LastOfType(arg, ret.value[1])>>, 1)).value

C10_Witness ==
    /\ pc = "done"
    /\ origin = "encoder"
    /\ Len(arg) = 2
    /\ arg[1][1] = "boolean"
    /\ arg[2][1] = "double"
    /\ ret.ok
    /\ ret.value[1] = "boolean"


\* C17: StringSet round trip. parse_value_message(encode_value_message(
\* 'string_set', s)) is ('string_set', s) for every sequence s of strings:
\* the empty sequence, empty strings, repeats, strings of several bytes per
\* character, an inner message longer than 127 bytes.
C17_StringSetRoundTrip ==
    (pc = "done" /\ origin = "encoder" /\ Len(arg) = 1 /\ arg[1][1] = "string_set")
        => ret = [ok |-> TRUE, value |-> arg[1]]

C17_Witness ==
    /\ pc = "done"
    /\ origin = "encoder"
    /\ arg = << <<"string_set", PyList(<<Str(<<97>>), Str(<<98>>), Str(<<97>>)>>)>> >>
    /\ data = <<50, 9, 10, 1, 97, 10, 1, 98, 10, 1, 97>>
    /\ ret.ok
    /\ ret.value = <<"string_set", PyList(<<Str(<<97>>), Str(<<98>>), Str(<<97>>)>>)>>

\* the table of C18: variant |-> <<field number, wire type>>
ValueTable ==
    [ boolean |-> <<1, 0>>, float |-> <<2, 5>>, integer |-> <<3, 0>>, long |-> <<4, 0>>,
      string |-> <<5, 2>>, string_set |-> <<6, 2>>, double |-> <<7, 1>> ]

\* buf is one tag byte of the pair fw and then exactly the payload that the
\* wire type frames: one varint, 4 bytes, 8 bytes, or a length varint and
\* that many bytes
OneFramedField(buf, fw) ==
    /\ Len(buf) >= 1
    /\ buf[1] = fw[1] * 8 + fw[2]
    /\ CASE fw[2] = 0 -> LET v == read_varint(buf, 1) IN v.ok /\ v.pos = Len(buf)
          [] fw[2] = 5 -> Len(buf) = 1 + 4
          [] fw[2] = 1 -> Len(buf) = 1 + 8
          [] fw[2] = 2 -> LET l == read_varint(buf, 1) IN
                          l.ok /\ l.value = PyNat(NatMag(Len(buf) - l.pos))

\* C18: value encoding follows the table. For each of the seven variants
\* encode_value_message returns exactly one field: the tag
\* field_number << 3 | wire_type of the variant's row, then a payload of
\* exactly the framing of that wire type.
C18_EncodingFollowsTable ==
    (pc \in {"decode", "done"} /\ origin = "encoder" /\ Len(arg) = 1
        /\ arg[1][1] \in DOMAIN ValueTable)
        => OneFramedField(data, ValueTable[arg[1][1]])

C18_Witness ==
    /\ pc = "decode"
    /\ origin = "encoder"
    /\ arg = << <<"float", FloatOfBits32(PyNat(<<0, 0, 0, 124, 3>>))>> >>
    /\ data = <<21, 0, 0, 128, 63>>

\* ------------------------------------------------------------------------
\* The PreferenceMap calls: encode_preferences_dict(arg), then
\* parse_preferences_pb(data); between the two the file may be cut short or
\* gain an unknown field; raw files are handed to the parser as they are
\* ------------------------------------------------------------------------

\* keys a generated dict may hold
MaxKeys == 2

\* bytes a short frame may lack
MaxMissing == 2

KeySamples == { Str(<<107>>), Str(<<233>>), Str(<<>>) }

DictValueSamples ==
    { <<NoneName, PyNone>>,
      <<"boolean", PyBool(TRUE)>>,
      <<"float", FloatOfBits32(PyNat(<<0, 0, 0, 124, 3>>))>>,
      <<"integer", PyNat(<<1>>)>>, <<"integer", MinusOne>>, <<"integer", Int32Min>>,
      <<"long", MinusOne>>, <<"long", Int64Max>>,
      <<"string", Str(<<97>>)>>,
      <<"string_set", PyList(<<>>)>>,
      <<"string_set", PyList(<<Str(<<97>>), Str(<<98>>), Str(<<97>>)>>)>>,
      <<"double", FloatOfBits64(PyNat(<<0, 0, 0, 0, 0, 0, 0, 64, 127>>))>>,
      <<"bogus", PyBool(TRUE)>>, <<"int", PyNat(<<1>>)>> }

\* the dicts of 1..MaxKeys items with distinct keys, in every insertion order
PrefDicts ==
    { d \in SeqsOf(KeySamples \X DictValueSamples, MaxKeys) :
        \A i, j \in 1..Len(d) : d[i][1] = d[j][1] => i = j }

\* complete top-level fields of number 2, which the format does not have, of
\* the four wire types
UnknownTopFields ==
    { <<16, 5>>, <<16, 255, 1>>, <<16, 255, 255, 255, 255, 255, 255, 255, 255, 255, 1>>,
      <<17, 10, 1, 107, 4, 5, 6, 7, 8>>,
      <<18, 0>>, <<18, 3, 10, 1, 107>>,
      <<21, 10, 1, 107, 4>> }

KeyField == <<10, 1, 107>>

BoolValue == <<8, 1>>

StringValue == <<42, 1, 97>>

StringSetValue == <<50, 3, 10, 1, 97>>

\* a MapEntry body: the key "k" and the Value message v
EntryOf(v) == KeyField \o <<18, Len(v)>> \o v

\* the top-level field holding the MapEntry body e
TopOf(e) == <<10, Len(e)>> \o e

\* Files in which one length varint declares d bytes more than remain in its
\* enclosing buffer, by the place of that length; all enclosing frames declare
\* exactly the bytes they hold.
ShortFiles(site, d) ==
    CASE site = "short_entry" ->
            { <<10, Len(e) + d>> \o e : e \in {KeyField, EntryOf(StringValue), EntryOf(StringSetValue)} }
      [] site = "short_key" ->
            { TopOf(<<10, 1 + d, 107>>), TopOf(<<18, 2>> \o BoolValue \o <<10, 1 + d, 107>>) }
      [] site = "short_value" ->
            { TopOf(KeyField \o <<18, Len(v) + d>> \o v) : v \in {BoolValue, StringValue, StringSetValue} }
      [] site = "short_string" ->
            { TopOf(EntryOf(<<42, 1 + d, 97>>)), TopOf(EntryOf(BoolValue \o <<42, d>>)) }
      [] site = "short_string_set" ->
            { TopOf(EntryOf(<<50, 3 + d, 10, 1, 97>>)), TopOf(EntryOf(<<50, d>>)) }
      [] site = "short_element" ->
            { TopOf(EntryOf(<<50, 3, 10, 1 + d, 97>>)), TopOf(EntryOf(<<50, 2, 10, d>>)) }

ShortSites ==
    { "short_entry", "short_key", "short_value", "short_string", "short_string_set",
      "short_element" }

\* Files that end before the terminating byte of a varint: a tag, a length or
\* a varint payload at each nesting level.
CutVarintFiles ==
    { <<138>>, <<10, 129>>, <<16, 129>>, <<18, 129>>,
      TopOf(<<138>>), TopOf(<<10, 129>>), TopOf(<<8, 129>>), TopOf(<<26, 129>>),
      TopOf(KeyField \o <<18, 129>>),
      TopOf(EntryOf(<<136>>)), TopOf(EntryOf(<<8, 129>>)), TopOf(EntryOf(<<24, 255>>)),
      TopOf(EntryOf(<<32, 128, 128>>)), TopOf(EntryOf(<<42, 129>>)), TopOf(EntryOf(<<50, 129>>)),
      TopOf(EntryOf(<<72, 129>>)), TopOf(EntryOf(<<74, 129>>)),
      TopOf(EntryOf(<<50, 1, 138>>)), TopOf(EntryOf(<<50, 2, 10, 129>>)),
      TopOf(EntryOf(<<50, 2, 8, 129>>)), TopOf(EntryOf(<<50, 2, 18, 129>>)) }

\* tags whose wire type is none of varint, 64-bit, length-delimited, 32-bit
BadWireTags == { 8 * f + w : f \in {1, 2, 6, 9}, w \in {3, 4, 6, 7} }

\* Well-framed files in which the decoder meets a field with such a tag, by
\* the nesting level of that field.
BadWireFiles(site) ==
    CASE site = "badwire_top" ->
            { <<t>> : t \in BadWireTags } \cup { TopOf(KeyField) \o <<t, 1>> : t \in BadWireTags }
      [] site = "badwire_entry" ->
            { TopOf(<<t>> \o KeyField) : t \in BadWireTags }
            \cup { TopOf(KeyField \o <<t>>) : t \in BadWireTags }
      [] site = "badwire_value" ->
            { TopOf(EntryOf(<<t>>)) : t \in BadWireTags }
            \cup { TopOf(EntryOf(BoolValue \o <<t, 1>>)) : t \in BadWireTags }
      [] site = "badwire_string_set" ->
            { TopOf(EntryOf(<<50, 1, t>>)) : t \in BadWireTags }
            \cup { TopOf(EntryOf(<<50, 4, 10, 1, 97, t>>)) : t \in BadWireTags }

BadWireSites == { "badwire_top", "badwire_entry", "badwire_value", "badwire_string_set" }

\* entries a generated file may hold
MaxEntries == 3

\* Fields of a Value message as <<field number, wire type, framed payload>>:
\* one of each pair of the table, then pairs the table does not have (other
\* numbers, and known numbers with another wire type)
KnownValueFields ==
    { <<1, WIRE_VARINT, <<1>>>>, <<2, WIRE_32BIT, <<0, 0, 128, 63>>>>,
      <<3, WIRE_VARINT, <<5>>>>, <<4, WIRE_VARINT, <<6>>>>,
      <<5, WIRE_LENGTH, <<1, 97>>>>, <<6, WIRE_LENGTH, <<3, 10, 1, 97>>>>,
      <<7, WIRE_64BIT, <<0, 0, 0, 0, 0, 0, 240, 63>>>> }

UnknownValueFields ==
    { <<9, WIRE_VARINT, <<5>>>>, <<8, WIRE_LENGTH, <<1, 8>>>>,
      <<1, WIRE_32BIT, <<1, 2, 3, 4>>>>, <<5, WIRE_VARINT, <<1>>>>,
      <<2, WIRE_LENGTH, <<0>>>>, <<7, WIRE_32BIT, <<1, 2, 3, 4>>>> }

\* a String field that declares five bytes and holds one
ShortStringField == <<5, WIRE_LENGTH, <<5, 97>>>>

\* the (field number, wire type) pairs of the table
KnownPairs == { <<f[1], f[2]>> : f \in KnownValueFields }

RECURSIVE FieldBytes(_, _)
\* the bytes of the fields fs from i on: tag, then payload
FieldBytes(fs, i) ==
    IF i > Len(fs) THEN <<>>
    ELSE <<8 * fs[i][1] + fs[i][2]>> \o fs[i][3] \o FieldBytes(fs, i + 1)

\* MapEntry bodies as [key, val]: key is PyNone (no field 1) or the key's
\* bytes, val is PyNone (no field 2) or the fields of the Value message
EntryBytes(e) ==
    (IF e.key = PyNone THEN <<>> ELSE <<10, Len(e.key.bytes)>> \o e.key.bytes)
    \o (IF e.val = PyNone THEN <<>>
        ELSE LET v == FieldBytes(e.val.fields, 1) IN <<18, Len(v)>> \o v)

RECURSIVE EntriesFile(_, _)
\* the file of the entries es from i on, one top-level field 1 each
EntriesFile(es, i) ==
    IF i > Len(es) THEN <<>>
    ELSE TopOf(EntryBytes(es[i])) \o EntriesFile(es, i + 1)

\* entries for files of several entries: no key or one of two keys, and no
\* value, a Boolean, a String or a String cut short
SeveralEntries ==
    [ key : {PyNone, [bytes |-> <<107>>], [bytes |-> <<106>>]},
      val : {PyNone} \cup { [fields |-> <<f>>] :
                f \in { <<1, WIRE_VARINT, <<1>>>>, <<5, WIRE_LENGTH, <<1, 97>>>>,
                        ShortStringField } } ]

\* entries for files of one entry: the key "k" and every Value message of up
\* to MaxFields sample fields, the empty one included
SingleEntries ==
    [ key : {[bytes |-> <<107>>]},
      val : {PyNone, [fields |-> <<>>]}
            \cup { [fields |-> fs] :
                     fs \in SeqsOf(KnownValueFields \cup UnknownValueFields, MaxFields) } ]

EntryLists ==
    SeqsOf(SeveralEntries, MaxEntries) \cup { <<e>> : e \in SingleEntries }

\* Files whose last field is a 32-bit or 64-bit field with d bytes fewer than
\* its width left in the enclosing buffer: a Float or a Double read by
\* read_fixed32 / read_fixed64, or a field of another number that the
\* scanning loops skip, at each of the four nesting levels.
FixedBody(n) == [i \in 1..n |-> i]

ShortFixedFiles(site, d) ==
    CASE site = "short_fixed_known" ->
            { TopOf(EntryOf(<<21>> \o FixedBody(4 - d))),
              TopOf(EntryOf(<<57>> \o FixedBody(8 - d))),
              TopOf(EntryOf(BoolValue \o <<21>> \o FixedBody(4 - d))) }
      [] site = "short_fixed_top" ->
            { TopOf(EntryOf(BoolValue)) \o <<21>> \o FixedBody(4 - d),
              TopOf(EntryOf(BoolValue)) \o <<17>> \o FixedBody(8 - d) }
      [] site = "short_fixed_entry" ->
            { TopOf(KeyField \o <<29>> \o FixedBody(4 - d)),
              TopOf(KeyField \o <<25>> \o FixedBody(8 - d)) }
      [] site = "short_fixed_value" ->
            { TopOf(EntryOf(<<77>> \o FixedBody(4 - d))),
              TopOf(EntryOf(<<73>> \o FixedBody(8 - d))) }
      [] site = "short_fixed_string_set" ->
            { TopOf(EntryOf(<<50, 5 - d, 13>> \o FixedBody(4 - d))),
              TopOf(EntryOf(<<50, 9 - d, 9>> \o FixedBody(8 - d))) }

ShortFixedSites ==
    { "short_fixed_known", "short_fixed_top", "short_fixed_entry", "short_fixed_value",
      "short_fixed_string_set" }

InitPrefs ==
    /\ NoSession
    /\ ret = NotCalled
    /\ offset = 0
    /\ \/ /\ pc = "encode"
          /\ origin = "encoder"
          /\ arg \in PrefDicts
          /\ data = <<>>
       \/ /\ pc = "decode"
          /\ arg = <<>>
          /\ \/ /\ origin \in ShortSites
                /\ \E d \in 1..MaxMissing : data \in ShortFiles(origin, d)
             \/ /\ origin = "cut_varint"
                /\ data \in CutVarintFiles
             \/ /\ origin \in BadWireSites
                /\ data \in BadWireFiles(origin)
             \/ /\ origin \in ShortFixedSites
                /\ \E d \in 1..MaxMissing : data \in ShortFixedFiles(origin, d)
       \/ /\ pc = "decode"
          /\ origin = "entries"
          /\ arg \in EntryLists
          /\ data = EntriesFile(arg, 1)

\* the call returns the bytes, or raises and returns nothing
CallEncodePreferences ==
    /\ pc = "encode"
    /\ LET r == encode_preferences_dict(arg) IN
       IF r.ok
       THEN data' = r.bytes /\ pc' = "decode" /\ UNCHANGED ret
       ELSE ret' = r /\ pc' = "raised" /\ UNCHANGED data
    /\ UNCHANGED <<origin, arg, offset>>
    /\ UNCHANGED <<editor_vars, backup_vars>>

\* the file of one entry loses its end: any cut that leaves a strict prefix
CutFile ==
    /\ pc = "decode"
    /\ origin = "encoder"
    /\ Len(arg) = 1
    /\ \E n \in 1..(Len(data) - 1) : data' = SubSeq(data, 1, n)
    /\ origin' = "cut"
    /\ UNCHANGED <<pc, arg, offset, ret>>
    /\ UNCHANGED <<editor_vars, backup_vars>>

\* the file of one entry gains a complete unknown field before or after it
AddUnknownField ==
    /\ pc = "decode"
    /\ origin = "encoder"
    /\ Len(arg) = 1
    /\ \E u \in UnknownTopFields :
          \/ data' = u \o data /\ origin' = "unknown_before"
          \/ data' = data \o u /\ origin' = "unknown_after"
    /\ UNCHANGED <<pc, arg, offset, ret>>
    /\ UNCHANGED <<editor_vars, backup_vars>>

CallParsePreferences ==
    /\ pc = "decode"
    /\ ret' = parse_preferences_pb(data)
    /\ pc' = "done"
    /\ UNCHANGED <<origin, arg, data, offset>>
    /\ UNCHANGED <<editor_vars, backup_vars>>

NextPrefs == CallEncodePreferences \/ CutFile \/ AddUnknownField \/ CallParsePreferences

SpecPrefs == InitPrefs /\ [][NextPrefs]_vars

\* the ValueError messages that report TruncatedData
TruncatedData ==
    { "Unexpected end of data while reading varint", "Truncated string",
      "Truncated string_set", "Not enough data for fixed32", "Not enough data for fixed64" }

\* the ValueError messages that report UnsupportedWireType
UnsupportedWireType ==
    { "Unknown wire type encountered", "Unknown wire inside map entry", "Unknown top-level wire" }

Raised(r, msgs) == ~r.ok /\ r.err \in msgs

\* the variants C1 is about, with Integer in 32 and Long in 64 signed bits
InRoundTripDomain(d) ==
    \A i \in 1..Len(d) :
        LET t == d[i][2][1]
            v == d[i][2][2]
        IN  /\ t \in {NoneName, "boolean", "integer", "long", "string", "string_set"}
            /\ t = "integer" => MagLE(v.mag, IF v.neg THEN Int32Min.mag ELSE Int32Max.mag)
            /\ t = "long" => MagLE(v.mag, IF v.neg THEN Int64Min.mag ELSE Int64Max.mag)

\* C1: map round trip. parse_preferences_pb(encode_preferences_dict(m)) equals
\* m, variant and value, for every m whose values are Absent, Boolean, Integer
\* (signed 32-bit), Long (signed 64-bit), String or StringSet.
C1_MapRoundTrip ==
    (pc = "done" /\ origin = "encoder" /\ InRoundTripDomain(arg))
        => (ret.ok /\ DictEq(ret.value, arg))

\* C2: truncation. A file that ends before a varint's terminating byte, or in
\* which a length varint declares more bytes than remain in the enclosing
\* buffer (entry, key, value, String, StringSet, StringSet element), fails
\* with TruncatedData.
C2_Truncation ==
    (pc = "done" /\ origin \in ShortSites \cup {"cut_varint", "cut"})
        => Raised(ret, TruncatedData)

\* C8: an unsupported wire type is fatal at every nesting level (top level,
\* MapEntry, Value message, StringSet inner message).
C8_UnsupportedWireFatal ==
    (pc = "done" /\ origin \in BadWireSites) => Raised(ret, UnsupportedWireType)

LastWithKey(es, kb) ==
    CHOOSE i \in 1..Len(es) :
        /\ es[i].key = [bytes |-> kb]
        /\ \A j \in (i + 1)..Len(es) : es[j].key # [bytes |-> kb]

\* what the Value message of entry e decodes to on its own, Absent without one
ValueOfEntry(e) ==
    IF e.val = PyNone THEN <<NoneName, PyNone>>
    ELSE parse_value_message(FieldBytes(e.val.fields, 1)).value

\* C11: duplicate keys, last one wins. When a file of several top-level
\* MapEntry fields decodes, every key of the file has exactly one item in the
\* map, holding the value of the last entry with that key in the bytes
\* (Absent when that entry has no value field).
C11_LastOneWins ==
    (pc = "done" /\ origin = "entries" /\ ret.ok)
        => \A i \in 1..Len(arg) :
              arg[i].key # PyNone
                  => LET k == utf8_decode(arg[i].key.bytes) IN
                     /\ Cardinality({ n \in 1..Len(ret.value) : ret.value[n][1] = k }) = 1
                     /\ ret.value[DictGet(ret.value, k)][2]
                            = ValueOfEntry(arg[LastWithKey(arg, arg[i].key.bytes)])

C11_Witness ==
    /\ pc = "done"
    /\ origin = "entries"
    /\ Len(arg) = 3
    /\ arg[1] = [key |-> [bytes |-> <<107>>], val |-> [fields |-> <<<<1, WIRE_VARINT, <<1>>>>>>]]
    /\ arg[2] = [key |-> [bytes |-> <<106>>], val |-> [fields |-> <<<<5, WIRE_LENGTH, <<1, 97>>>>>>]]
    /\ arg[3] = [key |-> [bytes |-> <<107>>], val |-> PyNone]
    /\ ret.ok
    /\ ret.value = << <<Str(<<107>>), <<NoneName, PyNone>>>>,
                      <<Str(<<106>>), <<"string", Str(<<97>>)>>>> >>

HasKey(e) == e.key # PyNone

\* C12: a MapEntry with no key field is dropped without error. A file of
\* entries decodes exactly as the file of its keyed entries alone does: the
\* keyless entries add no item and raise nothing, whatever their value bytes
\* hold, and the entries after them are decoded; every key of the map is the
\* key of a keyed entry.
C12_KeylessDropped ==
    (pc = "done" /\ origin = "entries")
        => /\ ret = parse_preferences_pb(EntriesFile(SelectSeq(arg, HasKey), 1))
           /\ ret.ok => (\A n \in 1..Len(ret.value) :
                            \E i \in 1..Len(arg) :
                                /\ HasKey(arg[i])
                                /\ ret.value[n][1] = utf8_decode(arg[i].key.bytes))
           /\ (\A i \in 1..Len(arg) : ~HasKey(arg[i]))
                  => ret = [ok |-> TRUE, value |-> <<>>]

C12_Witness ==
    /\ pc = "done"
    /\ origin = "entries"
    /\ Len(arg) = 2
    /\ arg[1] = [key |-> PyNone, val |-> [fields |-> <<ShortStringField>>]]
    /\ arg[2] = [key |-> [bytes |-> <<107>>], val |-> [fields |-> <<<<1, WIRE_VARINT, <<1>>>>>>]]
    /\ ret = [ok |-> TRUE, value |-> << <<Str(<<107>>), <<"boolean", PyBool(TRUE)>>>> >>]

\* no field of the entry's Value message is cut short
WellFormed(e) ==
    e.val = PyNone \/ \A i \in 1..Len(e.val.fields) : e.val.fields[i] # ShortStringField

\* the entry has a field 2 whose Value message holds a pair of the table
HasKnownPair(e) ==
    /\ e.val # PyNone
    /\ \E i \in 1..Len(e.val.fields) :
          <<e.val.fields[i][1], e.val.fields[i][2]>> \in KnownPairs

\* C13: Absent. The key of a well-formed one-entry file maps to Absent, that
\* is (None, None), exactly when the entry has no field 2 or its Value
\* message holds no known (field number, wire type) pair; otherwise it maps
\* to the variant of a known pair that the message holds.
C13_AbsentExactly ==
    (pc = "done" /\ origin = "entries" /\ Len(arg) = 1 /\ HasKey(arg[1]) /\ WellFormed(arg[1]))
        => /\ ret.ok
           /\ Len(ret.value) = 1
           /\ (ret.value[1][2][1] = NoneName) <=> ~HasKnownPair(arg[1])
           /\ ~HasKnownPair(arg[1]) => (ret.value[1][2] = <<NoneName, PyNone>>)
           /\ HasKnownPair(arg[1])
                  => \E i \in 1..Len(arg[1].val.fields) :
                        LET f == arg[1].val.fields[i] IN
                        /\ <<f[1], f[2]>> \in KnownPairs
                        /\ ret.value[1][2][1] = TypeOrder[f[1]]

C13_Witness ==
    /\ pc = "done"
    /\ origin = "entries"
    /\ arg = << [key |-> [bytes |-> <<107>>],
                 val |-> [fields |-> << <<1, WIRE_32BIT, <<1, 2, 3, 4>>>>,
                                        <<5, WIRE_VARINT, <<1>>>> >>]] >>
    /\ ret = [ok |-> TRUE, value |-> << <<Str(<<107>>), <<NoneName, PyNone>>>> >>]

\* entry is the MapEntry of item: field 1 with the key's UTF-8 bytes, then
\* nothing for (None, None) and otherwise field 2 with a declared length of
\* all the bytes that remain
EntryShape(entry, item) ==
    LET kbytes == utf8_encode(item[1])
        klen   == read_varint(entry, 1)
    IN
    /\ Len(entry) >= 2
    /\ entry[1] = 10
    /\ klen.ok
    /\ klen.value = PyNat(NatMag(Len(kbytes)))
    /\ Slice(entry, klen.pos, klen.pos + Len(kbytes)) = kbytes
    /\ LET voff == klen.pos + Len(kbytes) IN
       IF item[2][1] = NoneName THEN Len(entry) = voff
       ELSE /\ Len(entry) > voff + 1
            /\ entry[voff + 1] = 18
            /\ LET vlen == read_varint(entry, voff + 1) IN
               /\ vlen.ok
               /\ vlen.value = PyNat(NatMag(Len(entry) - vlen.pos))
               /\ Len(entry) > vlen.pos

RECURSIVE BlocksFrom(_, _, _, _)
\* buf from off on is one top-level field-1 length-delimited block per item
\* of d from i on, each declaring the length of the entry it holds
BlocksFrom(buf, off, d, i) ==
    IF i > Len(d) THEN off = Len(buf)
    ELSE /\ Len(buf) > off + 1
         /\ buf[off + 1] = 10
         /\ LET l == read_varint(buf, off + 1) IN
            /\ l.ok
            /\ \E n \in 0..(Len(buf) - l.pos) :
                  /\ l.value = PyNat(NatMag(n))
                  /\ EntryShape(Slice(buf, l.pos, l.pos + n), d[i])
                  /\ BlocksFrom(buf, l.pos + n, d, i + 1)

\* C19: map-entry encoding. The bytes of encode_preferences_dict are, for
\* every key, exactly one top-level field-1 length-delimited block whose
\* declared length is the entry's byte length; the entry always holds field 1
\* (the key) and holds field 2 exactly when the value is not Absent.
C19_MapEntryEncoding ==
    (pc \in {"decode", "done"} /\ origin = "encoder") => BlocksFrom(data, 0, arg, 1)

C19_Witness ==
    /\ pc = "decode"
    /\ origin = "encoder"
    /\ arg = << <<Str(<<107>>), <<NoneName, PyNone>>>>,
                <<Str(<<233>>), <<"boolean", PyBool(TRUE)>>>> >>
    /\ data = <<10, 3, 10, 1, 107, 10, 8, 10, 2, 195, 169, 18, 2, 8, 1>>

\* the item's type name is neither None nor one of the seven
UnknownKind(item) == item[2][1] \notin {NoneName} \cup { TypeOrder[n] : n \in 1..Len(TypeOrder) }

\* C20: encoding an unrecognized variant is fatal. encode_value_message
\* raises for a type name outside the seven; encode_preferences_dict on a
\* dict with such an item raises and returns no bytes at all, whatever its
\* other items are, and on a dict without one it returns bytes.
C20_UnknownKindFatal ==
    (origin = "encoder" /\ pc # "encode")
        => LET bad == { i \in 1..Len(arg) : UnknownKind(arg[i]) } IN
           /\ (pc = "raised") <=> (bad # {})
           /\ pc = "raised"
                  => /\ data = <<>>
                     /\ \E i \in bad :
                           ret = Raise("Unknown type for encoding: " \o arg[i][2][1])
           /\ \A i \in bad : ~encode_value_message(arg[i][2][1], arg[i][2][2]).ok

C20_Witness ==
    /\ pc = "raised"
    /\ origin = "encoder"
    /\ arg = << <<Str(<<107>>), <<"boolean", PyBool(TRUE)>>>>,
                <<Str(<<233>>), <<"bogus", PyBool(TRUE)>>>> >>
    /\ data = <<>>
    /\ ret = Raise("Unknown type for encoding: bogus")


\* ------------------------------------------------------------------------
\* The editing session of PrefEditorApp: one action per menu command or
\* button, run to completion; a dialog answer is an input of the action
\* ------------------------------------------------------------------------

\* files present when the editor starts: {k: true}, a file whose only entry
\* has the empty key, a file that ends inside a varint
FileOfK == [bytes |-> TopOf(EntryOf(BoolValue))]

FileOfEmptyKey == [bytes |-> TopOf(<<10, 0>>)]

FileCutShort == [bytes |-> <<10, 129>>]

FileOfString == [bytes |-> TopOf(EntryOf(StringValue))]

\* answers to the key prompt of add_key and contents of the key field
KeyInputs == { Str(<<>>), Str(<<107>>) }

\* answers to the type prompt of add_key
TypeInputs == { "boolean", "bogus" }

\* what apply_to_selected makes of the type box and the value text: a type
\* name and the converted value, or the exception of the conversion
ApplyInputs ==
    { <<"boolean", PyBool(TRUE)>>, <<"boolean", Raise("Boolean must be true/false")>>,
      <<"float", FloatTooLarge>>,
      <<"", PyNone>> }

InitEditor ==
    /\ InitApp
    /\ InitBackupCreator
    /\ pc = "editor"
    /\ origin = "editor"
    /\ arg = <<>>
    /\ data = <<>>
    /\ offset = 0
    /\ ret = NotCalled
    /\ \E fp \in {FileOfK, FileOfEmptyKey, FileCutShort},
          fb \in {PyNone, FileOfString} :
          disk = [path \in DiskPaths |->
                    IF path = "p" THEN fp
                    ELSE IF path = Bak("p") THEN fb
                    ELSE PyNone]

\* menu_new with the chosen target
menu_new ==
    \E target \in UserPaths :
        /\ disk' = [disk EXCEPT ![target] = [bytes |-> <<>>]]
        /\ self_filename' = [path |-> target]
        /\ self_pref_dict' = <<>>
        /\ loaded' = TRUE
        /\ dialog' = <<"Created new file">>
        /\ UNCHANGED <<codec_vars, backup_vars>>

\* open(fn, 'rb').read() and parse_preferences_pb: the parsed dict or the
\* exception
read_and_parse(fn, dk) ==
    IF dk[fn] = PyNone THEN Raise("No such file or directory")
    ELSE parse_preferences_pb(dk[fn].bytes)

\* open_file after its try block, which gave the dict or the exception parsed
open_file_after_try(fn, parsed) ==
    IF ~parsed.ok
    THEN /\ dialog' = <<"Failed to parse file">>
         /\ UNCHANGED <<self_filename, self_pref_dict, loaded>>
    ELSE /\ self_filename' = [path |-> fn]
         /\ self_pref_dict' = parsed.value
         /\ loaded' = TRUE
         /\ dialog' = <<"Opened">>

\* open_file with the chosen fn
open_file ==
    \E fn \in UserPaths :
        /\ open_file_after_try(fn, read_and_parse(fn, disk))
        /\ UNCHANGED <<disk, codec_vars, backup_vars>>

\* the dict reload_file leaves with a failed read or parse: the one it
\* had, emptied (seeded fault)
reload_failed_cleared(d) == <<>>

\* the dict reload_file leaves with a failed read or parse: the assignment
\* of the try block did not happen
reload_failed(d) == d

\* reload_file from the parse on: parsed is the dict or the exception
reload_file_after_read(parsed) ==
    IF ~parsed.ok
    THEN /\ self_pref_dict' = reload_failed(self_pref_dict)
         /\ dialog' = <<"Failed to reload">>
    ELSE /\ self_pref_dict' = parsed.value
         /\ dialog' = <<"Reloaded">>

reload_file ==
    /\ self_filename # PyNone
    /\ reload_file_after_read(read_and_parse(self_filename.path, disk))
    /\ UNCHANGED <<self_filename, disk, loaded, codec_vars, backup_vars>>

\* the backup test of save_file left out: the copy is made on every save
\* (seeded fault)
backup_missing_always(dk, backup) == TRUE

\* not os.path.exists(backup)
backup_missing(dk, backup) == dk[backup] = PyNone

\* the end of save_file's try block: out is the result of the encode, dk the
\* files after the backup step
save_file_write(out, dk, path) ==
    IF ~out.ok THEN [disk |-> dk, dialog |-> "Error saving"]
    ELSE [disk |-> [dk EXCEPT ![path] = [bytes |-> out.bytes]], dialog |-> "Saved"]

\* save_file with self.filename = fname and self.pref_dict = d on the files
\* dk: the files it leaves and the message it shows
save_file_result(fname, d, dk) ==
    IF fname = PyNone
    THEN [disk |-> dk, dialog |-> "No file selected for saving"]
    ELSE
    LET path   == fname.path
        backup == Bak(path)
        copied == IF backup_missing(dk, backup)
                  THEN IF dk[path] = PyNone
                       THEN Raise("No such file or directory")
                       ELSE [ok |-> TRUE, disk |-> [dk EXCEPT ![backup] = dk[path]]]
                  ELSE [ok |-> TRUE, disk |-> dk]
    IN
    IF ~copied.ok THEN [disk |-> dk, dialog |-> "Error saving"]
    ELSE save_file_write(encode_preferences_dict(d), copied.disk, path)

\* the files and the messages after a handler that ends in save_file: shown
\* are the messages before the save, r is what the save left
after_save(shown, r) ==
    /\ disk' = r.disk
    /\ dialog' = Append(shown, r.dialog)

save_file ==
    /\ after_save(<<>>, save_file_result(self_filename, self_pref_dict, disk))
    /\ UNCHANGED <<self_filename, self_pref_dict, loaded, codec_vars, backup_vars>>

\* save_file_as with the chosen fn
save_file_as ==
    \E fn \in UserPaths :
        /\ self_filename' = [path |-> fn]
        /\ after_save(<<>>, save_file_result([path |-> fn], self_pref_dict, disk))
        /\ UNCHANGED <<self_pref_dict, loaded, codec_vars, backup_vars>>

\* the value add_key gives a new key of type t
DefaultValue(t) ==
    IF t = "string_set" THEN PyList(<<>>)
    ELSE IF t = "boolean" THEN PyBool(FALSE)
    ELSE IF t \in {"integer", "long"} THEN Zero
    ELSE IF t = "float" THEN FloatOfBits32(Zero)
    ELSE IF t = "double" THEN FloatOfBits64(Zero)
    ELSE Str(<<>>)

ValidTypes == { TypeOrder[n] : n \in 1..Len(TypeOrder) }

\* add_key (the + button, enabled once a file is loaded) with the answers k
\* and t of its two prompts
\* (seeded fault) add_key without the "Key already exists." check
add_key_with_overwrite(k, t) ==
    IF self_filename = PyNone
    THEN dialog' = <<"No file">> /\ UNCHANGED self_pref_dict
    ELSE IF k = Str(<<>>)
    THEN UNCHANGED <<self_pref_dict, dialog>>
    ELSE IF t \notin ValidTypes
    THEN dialog' = <<"Type not valid.">> /\ UNCHANGED self_pref_dict
    ELSE /\ self_pref_dict' = DictSet(self_pref_dict, k, <<t, DefaultValue(t)>>)
         /\ dialog' = <<"Added key">>

\* the body of add_key for the answers k and t
add_key_with(k, t) ==
    IF self_filename = PyNone
    THEN dialog' = <<"No file">> /\ UNCHANGED self_pref_dict
    ELSE IF k = Str(<<>>)
    THEN UNCHANGED <<self_pref_dict, dialog>>
    ELSE IF k \in DictKeys(self_pref_dict)
    THEN dialog' = <<"Key already exists.">> /\ UNCHANGED self_pref_dict
    ELSE IF t \notin ValidTypes
    THEN dialog' = <<"Type not valid.">> /\ UNCHANGED self_pref_dict
    ELSE /\ self_pref_dict' = DictSet(self_pref_dict, k, <<t, DefaultValue(t)>>)
         /\ dialog' = <<"Added key">>

add_key ==
    /\ loaded
    /\ \E k \in KeyInputs, t \in TypeInputs : add_key_with(k, t)
    /\ UNCHANGED <<self_filename, disk, loaded, codec_vars, backup_vars>>

\* self.pref_dict.pop(key, None)
DictPop(d, key) == SelectSeq(d, LAMBDA item : item[1] # key)

\* remove_key (the - button) on the selected row of the list, confirmed
remove_key ==
    /\ loaded
    /\ \E key \in DictKeys(self_pref_dict) :
          /\ self_pref_dict' = DictPop(self_pref_dict, key)
          /\ dialog' = <<"Removed key">>
    /\ UNCHANGED <<self_filename, disk, loaded, codec_vars, backup_vars>>

\* apply_to_selected with the stripped key field and the converted type and
\* value: the dict it leaves and the message it shows
apply_result(d, key, tv) ==
    IF key = Str(<<>>) THEN [pref_dict |-> d, dialog |-> "Key cannot be empty"]
    ELSE IF tv[1] \notin ValidTypes THEN [pref_dict |-> d, dialog |-> "Invalid type selected"]
    ELSE IF tv[2] \in { Raise("Boolean must be true/false") }
         THEN [pref_dict |-> d, dialog |-> "Parse error"]
    ELSE [pref_dict |-> DictSet(d, key, tv), dialog |-> "Updated"]

apply_to_selected ==
    /\ loaded
    /\ \E key \in KeyInputs, tv \in ApplyInputs :
          LET r == apply_result(self_pref_dict, key, tv) IN
          /\ self_pref_dict' = r.pref_dict
          /\ dialog' = <<r.dialog>>
    /\ UNCHANGED <<self_filename, disk, loaded, codec_vars, backup_vars>>

\* apply_and_save: apply_to_selected(), then save_file()
apply_and_save ==
    /\ loaded
    /\ \E key \in KeyInputs, tv \in ApplyInputs :
          LET a == apply_result(self_pref_dict, key, tv) IN
          /\ self_pref_dict' = a.pref_dict
          /\ after_save(<<a.dialog>>, save_file_result(self_filename, a.pref_dict, disk))
    /\ UNCHANGED <<self_filename, loaded, codec_vars, backup_vars>>

NextEditor ==
    \/ menu_new
    \/ open_file
    \/ reload_file
    \/ save_file
    \/ save_file_as
    \/ add_key
    \/ remove_key
    \/ apply_to_selected
    \/ apply_and_save

SpecEditor == InitEditor /\ [][NextEditor]_vars

\* the step ran save_file with the file name path (Save, Save As or
\* Apply & Save)
SaveStepTo(path) ==
    /\ dialog'[Len(dialog')] \in {"Saved", "Error saving"}
    /\ self_filename' = [path |-> path]

\* C14: backup on first save. For every path p: a save to p made while
\* p.bak does not exist and p does leaves in p.bak the bytes p held just
\* before the save, and p gets new bytes in such a save only together with
\* that copy; and once p.bak exists, every step that leaves the editor on
\* another file than p.bak itself (saves to p, reloads, edits, opening or
\* creating other files) leaves the bytes of p.bak as they are.
C14_BackupOnFirstSave ==
    [][ \A path \in UserPaths :
          LET backup == Bak(path) IN
          /\ (SaveStepTo(path) /\ disk[backup] = PyNone /\ disk[path] # PyNone)
                => disk'[backup] = disk[path]
          /\ (SaveStepTo(path) /\ disk[backup] = PyNone /\ disk'[path] # disk[path])
                => disk'[backup] = disk[path]
          /\ (disk[backup] # PyNone /\ self_filename' # [path |-> backup])
                => disk'[backup] = disk[backup]
      ]_vars

\* after an edit and a save to p, p.bak holds the bytes p had when it was
\* opened and p holds the new bytes
C14_Witness ==
    /\ pc = "editor"
    /\ self_filename = [path |-> "p"]
    /\ dialog = <<"Saved">>
    /\ disk[Bak("p")] = FileOfK
    /\ self_pref_dict = << <<Str(<<107>>), <<"boolean", PyBool(FALSE)>>>> >>
    /\ disk["p"] = [bytes |-> <<10, 7, 10, 1, 107, 18, 2, 8, 0>>]

\* C15: failed operations preserve the editing session. A step in which
\* open_file or reload_file fails to read or parse, or in which save_file
\* (Save, Save As) fails, leaves pref_dict exactly as it was, and a failed
\* open leaves the file name as it was too; a dict is installed by open or
\* reload only as the complete result of a parse that did not raise.
C15_FailurePreservesSession ==
    [][ /\ dialog' \in { <<"Failed to parse file">>, <<"Failed to reload">>,
                         <<"Error saving">>, <<"No file selected for saving">> }
             => self_pref_dict' = self_pref_dict
        /\ dialog' = <<"Failed to parse file">> => self_filename' = self_filename
        /\ dialog' \in { <<"Opened">>, <<"Reloaded">> }
             => /\ disk[self_filename'.path] # PyNone
                /\ parse_preferences_pb(disk[self_filename'.path].bytes)
                      = [ok |-> TRUE, value |-> self_pref_dict']
      ]_vars

\* unsaved edits survive a failed save and a failed reload: Save As to a
\* path without a file fails, then Reload fails to read that path
C15_Witness ==
    /\ pc = "editor"
    /\ dialog = <<"Failed to reload">>
    /\ self_filename = [path |-> Bak("p")]
    /\ disk[Bak("p")] = PyNone
    /\ self_pref_dict = << <<Str(<<107>>), <<"float", FloatTooLarge>>>> >>

\* C16: key invariant. In every state of a session (a file decoded, then
\* any add-key, remove-key and apply operations) every key of pref_dict is a
\* non-empty string and has exactly one current value.
C16_KeyInvariant ==
    pc = "editor"
        => \A i \in 1..Len(self_pref_dict) :
              /\ self_pref_dict[i][1] # Str(<<>>)
              /\ \A j \in 1..Len(self_pref_dict) :
                    self_pref_dict[j][1] = self_pref_dict[i][1] => j = i

\* C21: fixed-width truncation. A 32-bit or 64-bit field with fewer than 4
\* respectively 8 bytes left in its enclosing buffer, whether it is a known
\* Float or Double or a field that is merely skipped, makes the decode fail
\* with TruncatedData.
C21_FixedTruncationFatal ==
    (pc = "done" /\ origin \in ShortFixedSites) => Raised(ret, TruncatedData)

\* what C22 promises of the files after Save As has chosen path: out is the
\* encoding of the dict being saved
SaveAsWrote(out, path) == out.ok => disk'[path] = [bytes |-> out.bytes]

\* C22: Save As. After save_file_as with a chosen path (dialog not
\* cancelled), that path is the current file name and the file at that path
\* holds encode_preferences_dict(pref_dict), whether or not a file existed at
\* the path before.
C22_SaveAsWrites ==
    [][ save_file_as
          => /\ self_filename' # PyNone
             /\ SaveAsWrote(encode_preferences_dict(self_pref_dict), self_filename'.path)
      ]_vars

\* ------------------------------------------------------------------------
\* The key list on its own: files are opened or created and keys are added
\* with every type name the prompt accepts, and removed.
\* ------------------------------------------------------------------------
\* answers to the type prompt of add_key: the seven type names and one that
\* is none of them
AllTypeInputs == ValidTypes \cup { "bogus" }

\* answers to the key prompt: empty, the key of the files, and a second key
AddKeyInputs == KeyInputs \cup { Str(<<97>>) }

add_key_any_type ==
    /\ loaded
    /\ \E k \in AddKeyInputs, t \in AllTypeInputs : add_key_with(k, t)
    /\ UNCHANGED <<self_filename, disk, loaded, codec_vars, backup_vars>>

NextKeys == menu_new \/ open_file \/ add_key_any_type \/ remove_key

SpecKeys == InitEditor /\ [][NextKeys]_vars

\* the default values C28 lists: False, 0, 0.0, empty string, empty list
ListedDefaults ==
    { <<"boolean", PyBool(FALSE)>>, <<"integer", Zero>>, <<"long", Zero>>,
      <<"float", FloatOfBits32(Zero)>>, <<"double", FloatOfBits64(Zero)>>,
      <<"string", Str(<<>>)>>, <<"string_set", PyList(<<>>)>> }

\* C28: add key leaves existing entries untouched. An add_key step that does
\* not report "Added key" (key already in the map, empty key, invalid type
\* name, no file) leaves pref_dict as it was; one that does leaves the old
\* entries as they were and in their order, followed by exactly one new key
\* that was not in the map, holding its type name and that type's default.
C28_AddKeyFrame ==
    [][ add_key_any_type
          => IF dialog' = <<"Added key">>
             THEN /\ Len(self_pref_dict') = Len(self_pref_dict) + 1
                  /\ SubSeq(self_pref_dict', 1, Len(self_pref_dict)) = self_pref_dict
                  /\ self_pref_dict'[Len(self_pref_dict')][1] \notin DictKeys(self_pref_dict)
                  /\ self_pref_dict'[Len(self_pref_dict')][1] # Str(<<>>)
                  /\ self_pref_dict'[Len(self_pref_dict')][2] \in ListedDefaults
             ELSE self_pref_dict' = self_pref_dict
      ]_vars

\* next to the entry the opened file held, the added key a holds an empty
\* string set; then the same key was offered again and refused
C28_Witness ==
    /\ self_pref_dict = << <<Str(<<107>>), <<"boolean", PyBool(TRUE)>>>>,
                           <<Str(<<97>>), <<"string_set", PyList(<<>>)>>>> >>
    /\ dialog = <<"Key already exists.">>

\* the messages with which apply_to_selected rejects its input
ApplyRejections == { "Key cannot be empty", "Invalid type selected", "Parse error" }

\* C29: Apply & Save writes only applied edits. An apply_and_save step whose
\* apply part is rejected (empty key, invalid type, or a value that does not
\* parse for the chosen type) saves nothing: every file, the current file and
\* its .bak included, is left as it was.
C29_RejectedApplySavesNothing ==
    [][ (apply_and_save /\ dialog'[1] \in ApplyRejections) => disk' = disk ]_vars

\* other is a file whose decode surfaces to the caller the very error r
SurfacesSame(other, r) == other = r

\* C25: decode errors carry their position. The error a structural decode
\* failure surfaces to the caller identifies the byte offset at which the
\* decode failed: for the files that end inside a varint, where that offset
\* is the end of the file, two files that surface the same error have the
\* same length.
C25_ErrorIdentifiesOffset ==
    (pc = "done" /\ origin = "cut_varint" /\ ~ret.ok)
        => \A other \in CutVarintFiles :
              SurfacesSame(parse_preferences_pb(other), ret) => Len(other) = Len(data)

\* ------------------------------------------------------------------------
\* The decoder one loop iteration per step. A frame is a scanning loop at
\* work: its level (top level of parse_preferences_pb, MapEntry, the loop of
\* parse_value_message, StringSet), its buffer, its offset and, for a
\* MapEntry, whether a key has been seen and the value bytes seen last. The
\* frames of the call are the sequence arg, the innermost loop last.
\* ------------------------------------------------------------------------
Frame(level, buf) ==
    [level |-> level, buf |-> buf, off |-> 0, key |-> FALSE, val_bytes |-> PyNone]

\* an iteration that goes on at offset p
Advance(p) == [ok |-> TRUE, pos |-> p, stop |-> FALSE]

\* an iteration that runs the loop of `level` over buf before its own loop
\* goes on at offset p
Nested(level, buf, p) ==
    [ok |-> TRUE, pos |-> p, stop |-> FALSE, level |-> level, buf |-> buf]

\* a varint or fixed-width read that ends an iteration
after_read(r) == IF ~r.ok THEN r ELSE Advance(r.pos)

\* the StringSet loop with `suboff += sln` applied to the offset the
\* iteration began at (seeded fault)
string_set_iteration_from_start(sub, suboff) ==
    LET t == read_varint(sub, suboff) IN
    IF ~t.ok THEN t
    ELSE IF IsField(IntShr3(t.value), 1) /\ IntAnd7(t.value) = WIRE_LENGTH THEN
        LET l == read_varint(sub, t.pos) IN
        IF ~l.ok THEN l ELSE Advance(suboff + IntToNat(l.value))
    ELSE SkipField(sub, t.pos, IntAnd7(t.value), [ok |-> TRUE, pos |-> t.pos, stop |-> TRUE])

\* one iteration of the inner while loop of field 6 at suboff < len(sub):
\* the offset it goes on at, a break, or a raised error
string_set_iteration(sub, suboff) ==
    LET t == read_varint(sub, suboff) IN
    IF ~t.ok THEN t
    ELSE IF IsField(IntShr3(t.value), 1) /\ IntAnd7(t.value) = WIRE_LENGTH THEN
        LET l == read_varint(sub, t.pos) IN
        IF ~l.ok THEN l ELSE Advance(l.pos + IntToNat(l.value))
    ELSE SkipField(sub, t.pos, IntAnd7(t.value), [ok |-> TRUE, pos |-> t.pos, stop |-> TRUE])

\* one iteration of the while loop of parse_value_message at off < len(buf)
value_iteration(buf, off) ==
    LET t == read_varint(buf, off) IN
    IF ~t.ok THEN t
    ELSE
    LET field_num == IntShr3(t.value)
        wire      == IntAnd7(t.value)
    IN
    IF (IsField(field_num, 1) \/ IsField(field_num, 3) \/ IsField(field_num, 4))
       /\ wire = WIRE_VARINT
    THEN after_read(read_varint(buf, t.pos))
    ELSE IF IsField(field_num, 2) /\ wire = WIRE_32BIT THEN after_read(read_fixed32(buf, t.pos))
    ELSE IF IsField(field_num, 5) /\ wire = WIRE_LENGTH THEN
        LET l == read_varint(buf, t.pos) IN
        IF ~l.ok THEN l
        ELSE IF l.pos + IntToNat(l.value) > Len(buf) THEN Raise("Truncated string")
        ELSE Advance(l.pos + IntToNat(l.value))
    ELSE IF IsField(field_num, 6) /\ wire = WIRE_LENGTH THEN
        LET l == read_varint(buf, t.pos) IN
        IF ~l.ok THEN l
        ELSE IF l.pos + IntToNat(l.value) > Len(buf) THEN Raise("Truncated string_set")
        ELSE Nested("string_set", Slice(buf, l.pos, l.pos + IntToNat(l.value)),
                    l.pos + IntToNat(l.value))
    ELSE IF IsField(field_num, 7) /\ wire = WIRE_64BIT THEN after_read(read_fixed64(buf, t.pos))
    ELSE SkipField(buf, t.pos, wire, Raise("Unknown wire type encountered"))

\* one iteration of the while loop over a MapEntry at eoff < len(entry); a
\* key or value bytes it has read come with the offset
map_entry_iteration(entry, eoff) ==
    LET t == read_varint(entry, eoff) IN
    IF ~t.ok THEN t
    ELSE IF IsField(IntShr3(t.value), 1) /\ IntAnd7(t.value) = WIRE_LENGTH THEN
        LET l == read_varint(entry, t.pos) IN
        IF ~l.ok THEN l
        ELSE [ok |-> TRUE, pos |-> l.pos + IntToNat(l.value), stop |-> FALSE, key |-> TRUE]
    ELSE IF IsField(IntShr3(t.value), 2) /\ IntAnd7(t.value) = WIRE_LENGTH THEN
        LET l == read_varint(entry, t.pos) IN
        IF ~l.ok THEN l
        ELSE [ok |-> TRUE, pos |-> l.pos + IntToNat(l.value), stop |-> FALSE,
              val_bytes |-> [bytes |-> Slice(entry, l.pos, l.pos + IntToNat(l.value))]]
    ELSE SkipField(entry, t.pos, IntAnd7(t.value), Raise("Unknown wire inside map entry"))

\* one iteration of the while loop of parse_preferences_pb at
\* off < len(raw_bytes)
top_level_iteration(raw_bytes, off) ==
    LET t == read_varint(raw_bytes, off) IN
    IF ~t.ok THEN t
    ELSE IF IsField(IntShr3(t.value), 1) /\ IntAnd7(t.value) = WIRE_LENGTH THEN
        LET l == read_varint(raw_bytes, t.pos) IN
        IF ~l.ok THEN l
        ELSE Nested("map_entry", Slice(raw_bytes, l.pos, l.pos + IntToNat(l.value)),
                    l.pos + IntToNat(l.value))
    ELSE SkipField(raw_bytes, t.pos, IntAnd7(t.value), Raise("Unknown top-level wire"))

\* one iteration of the loop of a level
Iteration(level, buf, off) ==
    CASE level = "top_level"  -> top_level_iteration(buf, off)
      [] level = "map_entry"  -> map_entry_iteration(buf, off)
      [] level = "value"      -> value_iteration(buf, off)
      [] level = "string_set" -> string_set_iteration(buf, off)

\* entry lists for the complete files that are decoded
ScanEntryLists == SeqsOf(SeveralEntries, 2) \cup { <<e>> : e \in SingleEntries }

\* The files decoded: complete, cut and malformed ones, and one whose string
\* set holds two empty strings.
TopBuffers ==
    CutVarintFiles
    \cup UNION { ShortFiles(site, d) : site \in ShortSites, d \in 1..MaxMissing }
    \cup UNION { BadWireFiles(site) : site \in BadWireSites }
    \cup UNION { ShortFixedFiles(site, d) : site \in ShortFixedSites, d \in 1..MaxMissing }
    \cup { EntriesFile(es, 1) : es \in ScanEntryLists }
    \cup { TopOf(EntryOf(<<50, 4, 10, 0, 10, 0>>)) }

InitScan ==
    /\ NoSession
    /\ pc = "call"
    /\ origin = "caller"
    /\ data = <<>>
    /\ arg = <<>>
    /\ offset = 0
    /\ ret = NotCalled

\* parse_preferences_pb is called with a file: its loop starts at offset 0
ScanEnter ==
    /\ pc = "call"
    /\ data' \in TopBuffers
    /\ arg' = << Frame("top_level", data') >>
    /\ origin' = "top_level"
    /\ pc' = "scan"
    /\ UNCHANGED <<offset, ret>>
    /\ UNCHANGED <<editor_vars, backup_vars>>

\* the innermost loop at work
Cur == arg[Len(arg)]

\* the frames once the innermost loop is left
Popped == SubSeq(arg, 1, Len(arg) - 1)

\* the frames after the innermost loop has been left: a MapEntry that had a
\* key and value bytes is followed by parse_value_message on those bytes
AfterLoop ==
    IF Cur.level = "map_entry" /\ Cur.key /\ Cur.val_bytes # PyNone
    THEN Append(Popped, Frame("value", Cur.val_bytes.bytes))
    ELSE Popped

\* the decoder after the frames have become fs: the innermost loop goes on,
\* or parse_preferences_pb has returned
Resume(frames) ==
    \E fs \in { frames } :
        /\ arg' = fs
        /\ IF fs = <<>>
           THEN pc' = "done" /\ ret' = [ok |-> TRUE] /\ UNCHANGED <<origin, offset>>
           ELSE /\ pc' = "scan"
                /\ origin' = fs[Len(fs)].level
                /\ offset' = fs[Len(fs)].off
                /\ UNCHANGED ret

\* the innermost frame after an iteration with outcome r
Stepped(r) ==
    [Cur EXCEPT !.off = r.pos,
                !.key = IF "key" \in DOMAIN r THEN TRUE ELSE @,
                !.val_bytes = IF "val_bytes" \in DOMAIN r THEN r.val_bytes ELSE @]

\* the outcome r of one iteration: the decoder raises, the loop breaks, a
\* nested loop is begun, or the loop goes on
ScanOutcome(r) ==
    IF ~r.ok THEN pc' = "raised" /\ ret' = r /\ UNCHANGED <<arg, origin, offset>>
    ELSE IF r.stop THEN Resume(AfterLoop)
    ELSE IF "level" \in DOMAIN r
    THEN Resume(Append(Append(Popped, Stepped(r)), Frame(r.level, r.buf)))
    ELSE Resume(Append(Popped, Stepped(r)))

ScanIteration ==
    /\ pc = "scan"
    /\ Cur.off < Len(Cur.buf)
    /\ \E r \in { Iteration(Cur.level, Cur.buf, Cur.off) } : ScanOutcome(r)
    /\ UNCHANGED data
    /\ UNCHANGED <<editor_vars, backup_vars>>

\* the loop condition fails: the loop is left
ScanExit ==
    /\ pc = "scan"
    /\ Cur.off >= Len(Cur.buf)
    /\ Resume(AfterLoop)
    /\ UNCHANGED data
    /\ UNCHANGED <<editor_vars, backup_vars>>

NextScan == ScanEnter \/ ScanIteration \/ ScanExit

SpecScan == InitScan /\ [][NextScan]_vars

\* the decoder runs on: no loop is suspended for ever
SpecScanFair == SpecScan /\ WF_vars(ScanIteration \/ ScanExit)

\* the stepwise decoder ends as parse_preferences_pb on the same file: both
\* return, or both raise the same error
ScanAgrees ==
    pc \in {"done", "raised"}
        => IF ret.ok THEN parse_preferences_pb(data).ok ELSE parse_preferences_pb(data) = ret

\* C30: decode always terminates. Every iteration of each scanning loop
\* (top level, MapEntry, Value, StringSet) after which the loop is still at
\* work has advanced the loop's offset by at least one byte, and every call
\* of parse_preferences_pb ends: it returns or it raises.
C30_DecodeTerminates ==
    /\ [][ (pc = "scan" /\ pc' = "scan" /\ Cur.off < Len(Cur.buf) /\ Len(arg') >= Len(arg))
              => arg'[Len(arg)].off >= Cur.off + 1 ]_vars
    /\ (pc = "scan") ~> (pc \in {"done", "raised"})

\* the decode of an entry with a string set, which runs all four loops, has
\* returned
C30_Witness ==
    /\ pc = "done"
    /\ data = TopOf(EntryOf(StringSetValue))

\* ------------------------------------------------------------------------
\* The Backup Creator: the file list, the Create button, the zip worker
\* threads and the poller of their progress queue.
\* ------------------------------------------------------------------------
\* most entries the file list is let grow to
MaxFiles == 3

PrefsPath == "s.preferences_pb"

\* the paths the dialogs offer; link.db is a second path to the file song.db
\* and gone.db names no file
UserFiles == { PrefsPath, "song.db", "link.db", "notes.txt" }

\* where _clone_from_backup extracts the song.db of an archive: a file in a
\* temporary directory made for the clone
ClonePaths == { "backup_clone_1/song.db" }

\* the file a path names, and Path.exists / Path.samefile
FileOf(p) == IF p = "link.db" THEN "song.db" ELSE p

Exists(p) == p # "gone.db"

SameFile(p, q) == FileOf(p) = FileOf(q)

\* _validate: the state it gives the Create button
validate(prefs, mandatory) ==
    IF mandatory /\ ~(prefs # PyNone /\ Exists(prefs.path)) THEN "disabled" ELSE "normal"

\* _add_path on the list and the tree rows st with the preferences file
\* prefs: p is appended with row id len - 1, or nothing happens
add_path(st, prefs, p) ==
    IF ~Exists(p) THEN st
    ELSE IF prefs # PyNone /\ SameFile(p, prefs.path) THEN st
    ELSE IF \E i \in 1..Len(st.files) : SameFile(st.files[i], p) THEN st
    ELSE [files |-> Append(st.files, p), tree |-> Append(st.tree, Len(st.files))]

RECURSIVE add_paths(_, _, _, _)
\* `for f in files: self._add_path(Path(f))` from the i-th path on
add_paths(st, prefs, fs, i) ==
    IF i > Len(fs) THEN st ELSE add_paths(add_path(st, prefs, fs[i]), prefs, fs, i + 1)

\* the end of the handlers that add paths: the list and the rows st, then
\* _validate
added(st) ==
    /\ additional_files' = st.files
    /\ tree' = st.tree
    /\ create_btn' = validate(preferences_file, pb_mandatory)
    /\ UNCHANGED <<preferences_file, pb_mandatory, progress_q, workers, handled>>
    /\ UNCHANGED <<codec_vars, editor_vars>>

\* what a file dialog can return: one path or two
FileSelections(paths) ==
    { <<p>> : p \in paths } \cup { <<p, q>> : p \in paths, q \in paths }

\* _select_preferences with the chosen file
select_preferences ==
    \E f \in { PrefsPath } :
        /\ preferences_file' = [path |-> f]
        /\ create_btn' = validate([path |-> f], pb_mandatory)
        /\ UNCHANGED <<additional_files, tree, pb_mandatory, progress_q, workers, handled>>
        /\ UNCHANGED <<codec_vars, editor_vars>>

add_files ==
    \E fs \in FileSelections(UserFiles \cup { "gone.db" }) :
        /\ Len(additional_files) + Len(fs) <= MaxFiles
        /\ added(add_paths([files |-> additional_files, tree |-> tree], preferences_file, fs, 1))

\* _add_folder with a folder that holds song.db and link.db
add_folder ==
    /\ Len(additional_files) + 2 <= MaxFiles
    /\ added(add_paths([files |-> additional_files, tree |-> tree], preferences_file,
                       <<"link.db", "song.db">>, 1))

add_db_files ==
    \E fs \in FileSelections({ "song.db", "link.db" }) :
        /\ Len(additional_files) + Len(fs) <= MaxFiles
        /\ added(add_paths([files |-> additional_files, tree |-> tree], preferences_file, fs, 1))

\* _clone_from_backup of an archive that holds a .preferences_pb, which is
\* left out, and song.db
clone_from_backup ==
    \E dest \in ClonePaths :
        /\ Len(additional_files) < MaxFiles
        /\ \A i \in 1..Len(additional_files) : additional_files[i] # dest
        /\ added(add_path([files |-> additional_files, tree |-> tree], preferences_file, dest))

\* del self.additional_files[idx]; an IndexError is passed over
DelAt(files, idx) ==
    IF idx < Len(files)
    THEN SubSeq(files, 1, idx) \o SubSeq(files, idx + 2, Len(files))
    ELSE files

RECURSIVE remove_loop(_, _, _)
\* the for loop of _remove_selected over the selected row ids sels from the
\* i-th on
remove_loop(files, sels, i) ==
    IF i > Len(sels) THEN files ELSE remove_loop(DelAt(files, sels[i]), sels, i + 1)

RECURSIVE InOrder(_)
\* the row ids of a selection as tree.selection() returns them: in the
\* order of the rows
InOrder(S) ==
    IF S = {} THEN <<>>
    ELSE LET least == CHOOSE x \in S : \A y \in S : x <= y
         IN  <<least>> \o InOrder(S \ {least})

\* _rebuild_tree: rows 0..n-1 for the n entries
rebuild_tree(files) == [i \in 1..Len(files) |-> i - 1]

\* the rows of the tree as a set
Rows == { tree[i] : i \in 1..Len(tree) }

\* _remove_selected with the rows S selected
remove_selected_rows(S) ==
    /\ additional_files' = remove_loop(additional_files, InOrder(S), 1)
    /\ tree' = rebuild_tree(additional_files')
    /\ create_btn' = validate(preferences_file, pb_mandatory)
    /\ UNCHANGED <<preferences_file, pb_mandatory, progress_q, workers, handled>>
    /\ UNCHANGED <<codec_vars, editor_vars>>

remove_selected == \E S \in SUBSET Rows : remove_selected_rows(S)

clear_files ==
    /\ additional_files' = <<>>
    /\ tree' = <<>>
    /\ create_btn' = validate(preferences_file, pb_mandatory)
    /\ UNCHANGED <<preferences_file, pb_mandatory, progress_q, workers, handled>>
    /\ UNCHANGED <<codec_vars, editor_vars>>

\* a click on the "Preferences PB mandatory" checkbox: its command is _validate
toggle_mandatory ==
    /\ pb_mandatory' = ~pb_mandatory
    /\ create_btn' = validate(preferences_file, ~pb_mandatory)
    /\ UNCHANGED <<preferences_file, additional_files, tree, progress_q, workers, handled>>
    /\ UNCHANGED <<codec_vars, editor_vars>>

\* the number of sources _start_create_backup hands to the worker: the
\* preferences file if there is a valid one, and every listed file
SourceCount ==
    (IF preferences_file # PyNone /\ Exists(preferences_file.path) THEN 1 ELSE 0)
    + Len(additional_files)

\* the thread the next worker runs in
NextThread == IF workers["t1"].state = "idle" THEN "t1" ELSE "t2"

\* _start_create_backup, by a click on the Create button while it is not
\* disabled, past the check of the preferences file
start_create_backup ==
    /\ create_btn = "normal"
    /\ validate(preferences_file, pb_mandatory) = "normal"
    /\ workers[NextThread].state = "idle"
    /\ workers' = [workers EXCEPT ![NextThread] =
                      [state |-> "running", left |-> SourceCount, written |-> 0]]
    /\ create_btn' = "disabled"
    /\ UNCHANGED <<preferences_file, additional_files, tree, pb_mandatory, progress_q, handled>>
    /\ UNCHANGED <<codec_vars, editor_vars>>

\* self._progress_q.put((typ, val)) by the worker of thread t
Put(t, typ, val) == progress_q' = Append(progress_q, [typ |-> typ, val |-> val, thread |-> t])

\* _zip_worker without its except clause: an exception ends the thread and
\* nothing is reported (seeded fault)
zip_worker_no_except(t) ==
    /\ workers[t].state = "running"
    /\ \/ /\ workers[t].left > 0
          /\ Put(t, "progress", workers[t].written + 1)
          /\ workers' = [workers EXCEPT ![t].left = @ - 1, ![t].written = @ + 1]
       \/ /\ workers[t].left = 0
          /\ Put(t, "done", 0)
          /\ workers' = [workers EXCEPT ![t].state = "ended"]
       \/ /\ UNCHANGED progress_q
          /\ workers' = [workers EXCEPT ![t].state = "ended"]
    /\ UNCHANGED <<preferences_file, additional_files, tree, pb_mandatory, create_btn, handled>>
    /\ UNCHANGED <<codec_vars, editor_vars>>

\* one step of _zip_worker in thread t: a chunk (each source is one chunk)
\* is written and reported, the archive is closed and 'done' is reported, or
\* an exception is caught and 'error' is reported
zip_worker(t) ==
    /\ workers[t].state = "running"
    /\ \/ /\ workers[t].left > 0
          /\ Put(t, "progress", workers[t].written + 1)
          /\ workers' = [workers EXCEPT ![t].left = @ - 1, ![t].written = @ + 1]
       \/ /\ workers[t].left = 0
          /\ Put(t, "done", 0)
          /\ workers' = [workers EXCEPT ![t].state = "ended"]
       \/ /\ Put(t, "error", 0)
          /\ workers' = [workers EXCEPT ![t].state = "ended"]
    /\ UNCHANGED <<preferences_file, additional_files, tree, pb_mandatory, create_btn, handled>>
    /\ UNCHANGED <<codec_vars, editor_vars>>

Terminal == { "done", "error" }

\* the messages of thread t in the queue q, in their order
OfThread(q, t) == SelectSeq(q, LAMBDA m : m.thread = t)

\* _poll_progress_queue finding messages: it takes them all, in order; a
\* 'done' or 'error' sets the Create button to normal
poll_progress_queue ==
    /\ progress_q # <<>>
    /\ handled' = [t \in Threads |-> handled[t] \o OfThread(progress_q, t)]
    /\ progress_q' = <<>>
    /\ create_btn' = IF \E i \in 1..Len(progress_q) : progress_q[i].typ \in Terminal
                     THEN "normal" ELSE create_btn
    /\ UNCHANGED <<preferences_file, additional_files, tree, pb_mandatory, workers>>
    /\ UNCHANGED <<codec_vars, editor_vars>>

InitBackup ==
    /\ InitApp
    /\ InitBackupCreator
    /\ disk = [path \in DiskPaths |-> PyNone]
    /\ pc = "backup"
    /\ origin = "backup"
    /\ arg = <<>>
    /\ data = <<>>
    /\ offset = 0
    /\ ret = NotCalled

\* the handlers of the file list and of the preferences file
NextBackupFiles ==
    \/ select_preferences
    \/ add_files
    \/ add_folder
    \/ add_db_files
    \/ clone_from_backup
    \/ remove_selected
    \/ clear_files
    \/ toggle_mandatory

SpecBackupFiles == InitBackup /\ [][NextBackupFiles]_vars

\* Creating backups: the Create button, the worker threads and the poller,
\* and the handlers that call _validate, which reach the workers only through
\* the Create button and the number of listed files (the database files stand
\* for every kind of listed file).
NextBackup ==
    \/ select_preferences
    \/ add_db_files
    \/ remove_selected
    \/ clear_files
    \/ toggle_mandatory
    \/ start_create_backup
    \/ \E t \in Threads : zip_worker(t)
    \/ poll_progress_queue

SpecBackup == InitBackup /\ [][NextBackup]_vars

\* every started thread keeps running, and the poller is called again and
\* again by self.after
SpecBackupFair ==
    /\ SpecBackup
    /\ \A t \in Threads : WF_vars(zip_worker(t))
    /\ WF_vars(poll_progress_queue)

\* the poller has processed a terminal message of thread t
TerminalHandled(t) == \E i \in 1..Len(handled[t]) : handled[t][i].typ \in Terminal

\* what the poller has processed of thread t so far: 'progress' messages with
\* byte counts that never decrease, then at most one terminal message
InProtocol(t) ==
    /\ \A i \in 1..Len(handled[t]) : handled[t][i].typ \in Terminal => i = Len(handled[t])
    /\ \A i \in 1..Len(handled[t]), j \in 1..Len(handled[t]) :
          (i < j /\ handled[t][j].typ = "progress") => handled[t][i].val <= handled[t][j].val

\* C24: progress protocol of threaded backup creation. Every backup started
\* by _start_create_backup eventually leads the poller to process a terminal
\* message ('done' or 'error') of its worker; of each worker the poller
\* processes 'progress' messages with non-decreasing byte counts and then
\* exactly one terminal message, nothing after it; and the step that
\* processes a terminal message leaves the Create button enabled.
C24_ProgressProtocol ==
    /\ [](\A t \in Threads : InProtocol(t))
    /\ [][ (\E t \in Threads : TerminalHandled(t)' /\ ~TerminalHandled(t))
              => create_btn' = "normal" ]_vars
    /\ \A t \in Threads : (workers[t].state = "running") ~> TerminalHandled(t)

\* the poller has processed two progress messages and then 'done' of the
\* first worker, and the Create button is enabled
C24_Witness ==
    /\ Len(handled["t1"]) = 3
    /\ handled["t1"][2] = [typ |-> "progress", val |-> 2, thread |-> "t1"]
    /\ handled["t1"][3].typ = "done"
    /\ create_btn = "normal"

\* C23: duplicate prevention in the Backup Creator. After any sequence of
\* add-files, add-folder, add-databases, clone, remove, clear and
\* select-preferences operations no file appears twice among the backup
\* sources: additional_files holds no two paths to the same file, and does
\* not hold the file selected as the preferences file.
C23_NoDuplicateSources ==
    /\ \A i \in 1..Len(additional_files), j \in 1..Len(additional_files) :
          i # j => ~SameFile(additional_files[i], additional_files[j])
    /\ preferences_file # PyNone
          => \A i \in 1..Len(additional_files) :
                ~SameFile(additional_files[i], preferences_file.path)

\* a backup has been started in thread t and the poller has not yet
\* processed its 'done' or 'error'
Active(t) == workers[t].state # "idle" /\ ~TerminalHandled(t)

\* C26: at most one zip worker at a time. From the start of a worker until
\* its 'done' or 'error' message has been processed the Create button stays
\* disabled, whatever other handlers run in between, and no second worker is
\* started.
C26_OneWorkerAtATime ==
    \A t \in Threads :
        Active(t) => /\ create_btn = "disabled"
                     /\ \A u \in Threads \ {t} : ~Active(u)

RECURSIVE KeptFrom(_, _, _)
\* the entries of files from the i-th on whose row is not in S, in order
KeptFrom(files, S, i) ==
    IF i > Len(files) THEN <<>>
    ELSE (IF (i - 1) \in S THEN <<>> ELSE <<files[i]>>) \o KeptFrom(files, S, i + 1)

\* C27: Remove Selected removes exactly the selection. For every set S of
\* selected rows, _remove_selected leaves the previous list without the
\* entries at the selected indices, the others unchanged and in their order,
\* and the tree rows are again 0..n-1.
C27_RemovesExactlySelection ==
    [][ \A S \in SUBSET Rows :
          remove_selected_rows(S)
             => /\ additional_files' = KeptFrom(additional_files, S, 1)
                /\ tree' = [i \in 1..Len(additional_files') |-> i - 1]
      ]_vars

=============================================================================
